---- MODULE Spec2Model ----
(***************************************************************************)
(* The semantic vector analysis engine of src/src/pages/ConfigMgmt.tsx:    *)
(* extractValidEmbeddings, createSeededRandom, runKMeans,                  *)
(* runAgglomerative, runDbscan and the input handling of projectTo2D.      *)
(*                                                                         *)
(* Numbers.  Embedding entries are integers; a non-finite or non-numeric   *)
(* entry is the code NaNEntry.  Means are exact rationals in lowest terms  *)
(* ([n, d] with d > 0).  Math.sqrt is monotone, so every comparison of two *)
(* euclideanDistance values is made on the radicands; where the root       *)
(* itself is averaged (clusterDistance) it is taken in units of            *)
(* 1/SqrtScale, rounded down.  JavaScript indices and labels are 0-based   *)
(* and kept so; TLA+ sequences are 1-based, so JS a[i] is a[i + 1] here.   *)
(***************************************************************************)
EXTENDS Integers, Sequences, FiniteSets, TLC

VARIABLES
    data,           \* the batch handed to the call: a sequence of records
    call,           \* which engine function is running
    k,              \* runKMeans k / runAgglomerative targetClusters
    maxIterations,  \* runKMeans iteration cap
    eps,            \* runDbscan eps
    minPts,         \* runDbscan minPts
    pc,             \* position inside the running function
    indices,        \* extractValidEmbeddings: matrix row -> record index
    vectors,        \* extractValidEmbeddings: the matrix rows
    dimension,      \* extractValidEmbeddings: row length
    s,              \* createSeededRandom: the generator state, 32 bits
    usedIndices,    \* runKMeans: indices already drawn
    safetyCounter,  \* runKMeans: draws made
    centroids,      \* centroids of the running function
    labels,         \* per matrix row labels of the running function
    iterations,     \* runKMeans: loop counter
    clusters,       \* runAgglomerative: current clusters (lists of row indices)
    distanceCache,  \* runAgglomerative: cluster pair -> distance already computed
    visited,        \* runDbscan: visited flags
    clusterId,      \* runDbscan: next cluster id
    i,              \* runDbscan: outer loop index
    seeds,          \* runDbscan: seed stack of the running expansion
    result,         \* what the call returned (or that it raised)
    firstInertia,   \* observer: inertia of the first assignment pass of
                    \* runKMeans against the initial centroids
    previous,       \* what the call before this one returned, the caller
                    \* having made the same call twice
    centroidRow,    \* runKMeans: per centroid, the matrix row whose array
                    \* object the centroid is, or -1 for an array of its own
    overwritten,    \* the matrix rows an in-place store has written into
    graph           \* the Graph component: its state and its memoized values

vars == <<data, call, k, maxIterations, eps, minPts, pc, indices, vectors,
          dimension, s, usedIndices, safetyCounter, centroids, labels,
          iterations, clusters, distanceCache, visited, clusterId, i, seeds,
          result, firstInertia, previous, centroidRow, overwritten, graph>>

(***************************************************************************)
(* Bounds of the model and the inputs drawn in Init.                       *)
(***************************************************************************)
MaxRecords == 3
MaxK == 4

\* An entry that Number() does not turn into a finite number (NaN, a
\* non-numeric string, undefined, +/-Infinity).
NaNEntry == 9001

NullEmbedding == [kind |-> "null", emb |-> <<>>]

\* An embedding that is no array (an object, a number).
NotArrayEmbedding == [kind |-> "object", emb |-> <<>>]
ArrayEmbedding(e) == [kind |-> "array", emb |-> e]

\* The embeddings a record of the batch may carry: missing, empty, a short
\* non-numeric one, and four points of the plane.
EmbeddingPool ==
    { NullEmbedding,
      ArrayEmbedding(<<>>),
      ArrayEmbedding(<<NaNEntry>>),
      ArrayEmbedding(<<0, 0>>),
      ArrayEmbedding(<<3, 4>>),
      ArrayEmbedding(<<10, 10>>),
      ArrayEmbedding(<<100, 100>>) }

SeqsUpTo(S, n) == UNION { [1..m -> S] : m \in 0..n }

\* The four-row batch of the trivial K-Means scenario.
TrivialBatch ==
    << ArrayEmbedding(<<0, 0>>), ArrayEmbedding(<<0, 0>>),
       ArrayEmbedding(<<10, 10>>), ArrayEmbedding(<<10, 10>>) >>

\* Two rows whose difference has entries of opposite sign.
OpposedBatch == << ArrayEmbedding(<<3, 4>>), ArrayEmbedding(<<4, 3>>) >>

\* Two rows of one entry each.
OneDimensionalBatch == << ArrayEmbedding(<<5>>), ArrayEmbedding(<<7>>) >>

\* Three rows of one entry each, two of them close.
LineBatch == << ArrayEmbedding(<<0>>), ArrayEmbedding(<<1>>), ArrayEmbedding(<<10>>) >>

\* The batch of the dropped-record scenario: a missing embedding among three
\* vectors of dimension 3.
DroppedRecordBatch ==
    << ArrayEmbedding(<<1, 2, 3>>), NullEmbedding,
       ArrayEmbedding(<<4, 5, 6>>), ArrayEmbedding(<<7, 8, 9>>) >>

\* A batch with every kind of malformed embedding.
MalformedBatch ==
    << NullEmbedding, NotArrayEmbedding, ArrayEmbedding(<<>>),
       ArrayEmbedding(<<NaNEntry, 7>>), ArrayEmbedding(<<1, 2>>) >>

\* Seven rows on a line: with eps 1 and minPts 4 the rows [1] and [3] are
\* core rows of two clusters, and the row [2] between them, within eps of
\* both, is not a core row.
BorderBatch ==
    << ArrayEmbedding(<<0>>), ArrayEmbedding(<<0>>), ArrayEmbedding(<<1>>),
       ArrayEmbedding(<<2>>), ArrayEmbedding(<<3>>), ArrayEmbedding(<<4>>),
       ArrayEmbedding(<<4>>) >>

Batches ==
    SeqsUpTo(EmbeddingPool, MaxRecords)
        \cup {TrivialBatch, OpposedBatch, OneDimensionalBatch,
              DroppedRecordBatch, MalformedBatch}

KChoices == (-1)..MaxK
MaxIterationsChoices == {1, 40}
\* eps is a rational [n, d], d > 0.
EpsChoices == { [n |-> -1, d |-> 1], [n |-> 0, d |-> 1], [n |-> 1, d |-> 1],
                [n |-> 10, d |-> 1] }
MinPtsChoices == (-1)..4

(***************************************************************************)
(* Arithmetic helpers.                                                     *)
(***************************************************************************)
Abs(x) == IF x < 0 THEN -x ELSE x
Min(a, b) == IF a <= b THEN a ELSE b
Max(a, b) == IF a >= b THEN a ELSE b

RECURSIVE GCD(_, _)
GCD(a, b) == IF b = 0 THEN a ELSE GCD(b, a % b)

\* The rational n/d in lowest terms, d > 0.
Rat(n, d) ==
    LET g == GCD(Abs(n), Abs(d))
        sgn == IF d < 0 THEN -1 ELSE 1
    IN [n |-> sgn * (n \div g), d |-> sgn * (d \div g)]

RatOfInt(x) == [n |-> x, d |-> 1]
RatAdd(p, q) == Rat(p.n * q.d + q.n * p.d, p.d * q.d)
RatSub(p, q) == Rat(p.n * q.d - q.n * p.d, p.d * q.d)
RatMul(p, q) == Rat(p.n * q.n, p.d * q.d)
RatLess(p, q) == p.n * q.d < q.n * p.d
RatLeq(p, q) == p.n * q.d <= q.n * p.d

RECURSIVE RatSum(_)
RatSum(sq) == IF sq = <<>> THEN RatOfInt(0)
              ELSE RatAdd(sq[1], RatSum(Tail(sq)))

RECURSIVE IntSum(_)
IntSum(sq) == IF sq = <<>> THEN 0 ELSE sq[1] + IntSum(Tail(sq))

\* new Array(n).fill(v)
Fill(n, v) == [j \in 1..n |-> v]

\* The value of body at the value of e, with e evaluated once.
Once(e, body(_)) == CHOOSE r \in { body(x) : x \in {e} } : TRUE

(***************************************************************************)
(* createSeededRandom (ConfigMgmt.tsx 2394-2402).  The state is a 32-bit   *)
(* word, bit 0 the least significant.  << and ^ act on the bits; >> is the *)
(* signed shift of ToInt32(s), which copies bit 31 into the vacated bits;  *)
(* >>> 0 leaves the bits alone.  The value returned is                     *)
(* (s & 0xffffffff) / 2^32, and & yields a SIGNED 32-bit integer.          *)
(***************************************************************************)
Bits == 0..31
KMeansSeed == 1993

RECURSIVE Pow2(_)
Pow2(e) == IF e = 0 THEN 1 ELSE 2 * Pow2(e - 1)

\* The word of a seed in 0 .. 2^31 - 1.
SeedWord(seed) == [b \in Bits |-> IF b = 31 THEN 0 ELSE (seed \div Pow2(b)) % 2]

Xor(a, b) == [j \in Bits |-> (a[j] + b[j]) % 2]
ShiftLeft(a, n) == [j \in Bits |-> IF j >= n THEN a[j - n] ELSE 0]
ShiftRightSigned(a, n) == [j \in Bits |-> IF j + n <= 31 THEN a[j + n] ELSE a[31]]

\* One call of the closure: the new state.
createSeededRandom(a) ==
    LET s1 == Xor(a, ShiftLeft(a, 13))
        s2 == Xor(s1, ShiftRightSigned(s1, 17))
        s3 == Xor(s2, ShiftLeft(s2, 5))
    IN s3

RECURSIVE BitsValue(_, _, _)
BitsValue(a, lo, hi) ==
    IF lo > hi THEN 0 ELSE a[lo] + 2 * BitsValue(a, lo + 1, hi)

\* s & 0xffffffff as a signed integer, split in two 16-bit halves so that the
\* arithmetic stays within 32 bits: the value is High16 * 2^16 + Low16.
Low16(a) == BitsValue(a, 0, 15)
High16(a) == BitsValue(a, 16, 30) - a[31] * 32768

\* Math.floor(rand() * n) for the state a the call has just produced:
\* floor((High16 * 2^16 + Low16) * n / 2^32).
FloorDiv(x, y) == IF x >= 0 THEN x \div y ELSE -((-x + y - 1) \div y)
RandIndex(a, n) == FloorDiv(High16(a) * n + ((Low16(a) * n) \div 65536), 65536)

\* rand() >= 0 for the state a
RandNonNegative(a) == a[31] = 0

(***************************************************************************)
(* extractValidEmbeddings (ConfigMgmt.tsx 2665-2712).                      *)
(***************************************************************************)
IsFiniteEntry(x) == x # NaNEntry

\* The batch is a matrix: every embedding is an array of the same length,
\* at least 1, of finite numbers.
IsMatrix(d) ==
    /\ Len(d) >= 1
    /\ \A r \in 1..Len(d) :
          /\ d[r].kind = "array"
          /\ Len(d[r].emb) = Len(d[1].emb)
          /\ Len(d[r].emb) >= 1
          /\ \A j \in 1..Len(d[r].emb) : IsFiniteEntry(d[r].emb[j])

\* const num = Number(value); return Number.isFinite(num) ? num : 0;
CoerceEntry(x) == IF IsFiniteEntry(x) THEN x ELSE 0

\* A faulty filter that keeps the truthy entries only: it loses the zeros.
NormalizedEntriesTruthy(emb) ==
    SelectSeq([j \in 1..Len(emb) |-> CoerceEntry(emb[j])], LAMBDA x : x # 0)

\* embedding.map(...).filter(Number.isFinite)
NormalizedEntries(emb) ==
    SelectSeq([j \in 1..Len(emb) |-> CoerceEntry(emb[j])], IsFiniteEntry)

\* A faulty fit that pushes the coerced entries at their own length.
FitKeepsLength(normalized, dim) == normalized

\* The row pushed for entries already coerced, given the dimension in force.
FitToDimension(normalized, dim) ==
    IF Len(normalized) = dim THEN normalized
    ELSE [j \in 1..dim |-> IF j <= Len(normalized) /\ IsFiniteEntry(normalized[j])
                           THEN normalized[j] ELSE 0]

\* A stricter test that also drops an embedding with an entry that is no
\* finite number.
IsDroppedOnNonNumeric(item) ==
    \/ item.kind # "array"
    \/ Len(item.emb) = 0
    \/ \E j \in 1..Len(item.emb) : ~IsFiniteEntry(item.emb[j])

\* Whether the forEach body returns before pushing anything.
IsDropped(item) ==
    \/ item.kind # "array"
    \/ Len(item.emb) = 0
    \/ Len(NormalizedEntries(item.emb)) = 0

\* A faulty body that records the row number in place of the record index.
ExtractOneByRowNumber(acc, item, idx) ==
    IF IsDropped(item) THEN acc
    ELSE LET normalized == NormalizedEntries(item.emb)
             dim == IF acc.dimension = 0 THEN Len(normalized) ELSE acc.dimension
         IN [indices |-> Append(acc.indices, Len(acc.indices)),
             vectors |-> Append(acc.vectors, FitToDimension(normalized, dim)),
             dimension |-> dim]

\* One pass of the forEach body for the record at (0-based) index idx.
ExtractOne(acc, item, idx) ==
    IF IsDropped(item) THEN acc
    ELSE LET normalized == NormalizedEntries(item.emb)
             dim == IF acc.dimension = 0 THEN Len(normalized) ELSE acc.dimension
         IN [indices |-> Append(acc.indices, idx),
             vectors |-> Append(acc.vectors, FitToDimension(normalized, dim)),
             dimension |-> dim]

RECURSIVE ExtractUpTo(_, _)
ExtractUpTo(d, n) ==
    IF n = 0 THEN [indices |-> <<>>, vectors |-> <<>>, dimension |-> 0]
    ELSE ExtractOne(ExtractUpTo(d, n - 1), d[n], n - 1)

extractValidEmbeddings(d) == ExtractUpTo(d, Len(d))

(***************************************************************************)
(* euclideanDistance (ConfigMgmt.tsx 2656-2663): the radicand `sum`, for a *)
(* matrix row a and a vector b of rationals, and for two matrix rows.      *)
(***************************************************************************)
euclideanDistanceSq(a, b) ==
    RatSum([j \in 1..Len(a) |->
              LET diff == RatSub(RatOfInt(a[j]), b[j]) IN RatMul(diff, diff)])

RowDistanceSq(a, b) ==
    IntSum([j \in 1..Len(a) |-> (a[j] - b[j]) * (a[j] - b[j])])

\* [...candidate]: a matrix row as a centroid
RowAsCentroid(row) == [j \in 1..Len(row) |-> RatOfInt(row[j])]

\* The mean of the rows of vecs whose (0-based) indices are in members.
RECURSIVE SumOver(_, _, _)
SumOver(vecs, members, dim) ==
    IF members = <<>> THEN 0
    ELSE vecs[members[1] + 1][dim] + SumOver(vecs, Tail(members), dim)

MeanOf(vecs, members, dimn) ==
    [dim \in 1..dimn |-> Rat(SumOver(vecs, members, dim), Len(members))]

\* The (0-based) rows carrying label c, ascending.
RECURSIVE MembersUpTo(_, _, _)
MembersUpTo(lbls, c, n) ==
    IF n = 0 THEN <<>>
    ELSE IF lbls[n] = c THEN Append(MembersUpTo(lbls, c, n - 1), n - 1)
         ELSE MembersUpTo(lbls, c, n - 1)

Members(lbls, c) == MembersUpTo(lbls, c, Len(lbls))

\* const fullLabels = new Array(data.length).fill(-1);
\* indices.forEach((dataIdx, vectorIdx) => { fullLabels[dataIdx] = labels[vectorIdx]; });
RECURSIVE WriteBack(_, _, _, _)
WriteBack(full, idxs, lbls, n) ==
    IF n = 0 THEN full
    ELSE [WriteBack(full, idxs, lbls, n - 1) EXCEPT ![idxs[n] + 1] = lbls[n]]

\* A faulty write-back that ignores the index map: row v goes to record v.
FullLabelsIgnoringMap(d, idxs, lbls) ==
    [r \in 1..Len(d) |-> IF r <= Len(lbls) THEN lbls[r] ELSE -1]

FullLabels(d, idxs, lbls) == WriteBack(Fill(Len(d), -1), idxs, lbls, Len(idxs))

(***************************************************************************)
(* The state before a call, and what a call returns.                       *)
(***************************************************************************)
Pending == [status |-> "pending"]

\* No call has been made before this one.
NoPrevious == [status |-> "none"]

\* The Graph component is not part of the run.
Unmounted == [status |-> "unmounted"]

\* The locals of a call before the call declares them.
Idle ==
    /\ pc = "start"
    /\ indices = <<>>
    /\ vectors = <<>>
    /\ dimension = 0
    /\ s = SeedWord(KMeansSeed)
    /\ usedIndices = {}
    /\ safetyCounter = 0
    /\ centroids = <<>>
    /\ labels = <<>>
    /\ iterations = 0
    /\ clusters = <<>>
    /\ distanceCache = <<>>
    /\ visited = <<>>
    /\ clusterId = 0
    /\ i = 0
    /\ seeds = <<>>
    /\ result = Pending
    /\ firstInertia = RatOfInt(0)
    /\ previous = NoPrevious
    /\ centroidRow = <<>>
    /\ overwritten = {}

\* Number(inertia.toFixed(3)): the nearest multiple of 1/1000, halves up.
ToFixed3(q) ==
    LET whole == q.n \div q.d
        frac == q.n % q.d
    IN Rat(whole * 1000 + ((2000 * frac + q.d) \div (2 * q.d)), 1000)

(***************************************************************************)
(* runKMeans (ConfigMgmt.tsx 2714-2820).                                   *)
(***************************************************************************)
DefaultMaxIterations == 40

\* A variant that clamps k to [1, n].
TargetCentroidsClamped(kk, vecs) == Max(1, Min(kk, Len(vecs)))

\* const targetCentroids = Math.min(k, vectors.length);
TargetCentroids(kk, vecs) == Min(kk, Len(vecs))

\* const maxAttempts = targetCentroids === 0 ? 0 : vectors.length * 4;
MaxAttempts(kk, vecs) == IF TargetCentroids(kk, vecs) = 0 THEN 0 ELSE Len(vecs) * 4

\* The condition of the while loop that draws the initial centroids.
SeedLoopRuns ==
    /\ Len(centroids) < TargetCentroids(k, vectors)
    /\ safetyCounter < MaxAttempts(k, vectors)

\* The inner loop over the centroids for one row: the first centroid at the
\* least distance (bestDistance starts at Infinity, the test is strict).
RECURSIVE NearestUpTo(_, _, _)
NearestUpTo(row, cents, n) ==
    IF n = 0 THEN [bestCluster |-> 0, infinite |-> TRUE, bestDistance |-> RatOfInt(0)]
    ELSE LET best == NearestUpTo(row, cents, n - 1)
             distance == euclideanDistanceSq(row, cents[n])
         IN IF best.infinite \/ RatLess(distance, best.bestDistance)
            THEN [bestCluster |-> n - 1, infinite |-> FALSE, bestDistance |-> distance]
            ELSE best

\* A faulty inner loop whose test is not strict: the last centroid at the
\* least distance.
RECURSIVE NearestLastUpTo(_, _, _)
NearestLastUpTo(row, cents, n) ==
    IF n = 0 THEN [bestCluster |-> 0, infinite |-> TRUE, bestDistance |-> RatOfInt(0)]
    ELSE Once(NearestLastUpTo(row, cents, n - 1), LAMBDA best :
         Once(euclideanDistanceSq(row, cents[n]), LAMBDA distance :
         IF best.infinite \/ RatLeq(distance, best.bestDistance)
         THEN [bestCluster |-> n - 1, infinite |-> FALSE, bestDistance |-> distance]
         ELSE best))

NearestCentroidLastOnTies(row, cents) == NearestLastUpTo(row, cents, Len(cents)).bestCluster

NearestCentroid(row, cents) == NearestUpTo(row, cents, Len(cents)).bestCluster

\* The assignment pass: the new label of every row.
AssignLabels(vecs, cents) == [r \in 1..Len(vecs) |-> NearestCentroid(vecs[r], cents)]

\* A faulty recomputation that forgets to divide the sums by the counts.
RecomputeCentroidsAsSums(vecs, lbls, cents, dimn) ==
    [c \in 1..Len(cents) |->
        LET members == Members(lbls, c - 1)
        IN IF Len(members) = 0 THEN cents[c]
           ELSE [dim \in 1..dimn |-> RatOfInt(SumOver(vecs, members, dim))]]

\* The recomputation: the mean of the rows of each cluster, a cluster with no
\* row keeping its centroid.
RecomputeCentroids(vecs, lbls, cents, dimn) ==
    [c \in 1..Len(cents) |->
        LET members == Members(lbls, c - 1)
        IN IF Len(members) = 0 THEN cents[c] ELSE MeanOf(vecs, members, dimn)]

\* inertia += euclideanDistance(vectors[i], centroids[labels[i]]) ** 2
Inertia(vecs, lbls, cents) ==
    RatSum([r \in 1..Len(vecs) |-> euclideanDistanceSq(vecs[r], cents[lbls[r] + 1])])

KMeansEmptyResult ==
    [status |-> "returned", labels |-> <<>>, centroids |-> <<>>,
     iterations |-> 0, inertia |-> RatOfInt(0)]

KMeansNoCentroidResult(d) ==
    [status |-> "returned", labels |-> Fill(Len(d), -1), centroids |-> <<>>,
     iterations |-> 0, inertia |-> RatOfInt(0)]

\* A generator that goes on from the state the call before left.
RandLeftByLastCall == s

\* const rand = createSeededRandom(1993): the state of a new closure.
RandAtCall == SeedWord(KMeansSeed)

\* Lines 2715-2736: the guards, the normalization and the declarations.  A
\* call that returns at a guard declares nothing; the others declare
\* centroids, rand, usedIndices and safetyCounter anew.
KMeansStart ==
    /\ call = "kmeans"
    /\ pc = "start"
    /\ IF Len(data) = 0
       THEN /\ result' = KMeansEmptyResult
            /\ pc' = "done"
            /\ UNCHANGED <<indices, vectors, dimension, s, usedIndices,
                           safetyCounter, centroids, centroidRow>>
       ELSE LET ex == extractValidEmbeddings(data)
            IN /\ indices' = ex.indices
               /\ vectors' = ex.vectors
               /\ dimension' = ex.dimension
               /\ IF Len(ex.vectors) = 0 \/ ex.dimension = 0
                  THEN /\ result' = KMeansNoCentroidResult(data)
                       /\ pc' = "done"
                       /\ UNCHANGED <<s, usedIndices, safetyCounter, centroids,
                                      centroidRow>>
                  ELSE /\ result' = result
                       /\ pc' = "seed"
                       /\ centroids' = <<>>
                       /\ centroidRow' = <<>>
                       /\ s' = RandAtCall
                       /\ usedIndices' = {}
                       /\ safetyCounter' = 0
    /\ UNCHANGED <<data, call, k, maxIterations, eps, minPts, labels, iterations,
                   clusters, distanceCache, visited, clusterId, i, seeds,
                   firstInertia, previous, overwritten, graph>>

\* centroids.push(candidate): the centroid would be the row's own array.
SameArray(index) == index

\* [...candidate]: the centroid is a new array, no row's.
SpreadCopy(index) == -1

\* The rows whose array the stores centroids[cluster][dim] = ... of lines
\* 2796-2801 write into: the rows that are the array of a centroid with
\* members.
RowsStoredInto(lbls, rowOfCentroid) ==
    { rowOfCentroid[c] : c \in { c \in 1..Len(rowOfCentroid) :
                                    /\ rowOfCentroid[c] # -1
                                    /\ Len(Members(lbls, c - 1)) # 0 } }

\* Lines 2738-2748: one turn of the while loop.
KMeansDraw ==
    /\ call = "kmeans"
    /\ pc = "seed"
    /\ SeedLoopRuns
    /\ safetyCounter' = safetyCounter + 1
    /\ s' = createSeededRandom(s)
    /\ LET index == RandIndex(s', Len(vectors))
       IN IF index \in usedIndices
          THEN UNCHANGED <<usedIndices, centroids, centroidRow>>
          ELSE /\ usedIndices' = usedIndices \cup {index}
               /\ IF index \in 0..(Len(vectors) - 1) /\ Len(vectors[index + 1]) # 0
                  THEN /\ centroids' = Append(centroids, RowAsCentroid(vectors[index + 1]))
                       /\ centroidRow' = Append(centroidRow, SpreadCopy(index))
                  ELSE UNCHANGED <<centroids, centroidRow>>
    /\ UNCHANGED <<data, call, k, maxIterations, eps, minPts, pc, indices,
                   vectors, dimension, labels, iterations, clusters, distanceCache, visited,
                   clusterId, i, seeds, result,
                   firstInertia, previous, overwritten, graph>>

\* Lines 2750-2761: the loop has ended.
KMeansSeeded ==
    /\ call = "kmeans"
    /\ pc = "seed"
    /\ ~SeedLoopRuns
    /\ IF Len(centroids) = 0
       THEN /\ result' = KMeansNoCentroidResult(data)
            /\ pc' = "done"
            /\ UNCHANGED <<labels, iterations>>
       ELSE /\ labels' = Fill(Len(vectors), 0)
            /\ iterations' = 0
            /\ pc' = "iterate"
            /\ UNCHANGED result
    /\ UNCHANGED <<data, call, k, maxIterations, eps, minPts, indices, vectors,
                   dimension, s, usedIndices, safetyCounter, centroids,
                   clusters, distanceCache, visited, clusterId, i, seeds,
                   firstInertia, previous, centroidRow, overwritten, graph>>

\* Lines 2762-2802: one turn of the for loop.
KMeansIterate ==
    /\ call = "kmeans"
    /\ pc = "iterate"
    /\ iterations < maxIterations
    /\ LET assigned == AssignLabels(vectors, centroids)
           assignmentsChanged == assigned # labels
       IN /\ labels' = assigned
          /\ firstInertia' = IF iterations = 0
                             THEN Inertia(vectors, assigned, centroids)
                             ELSE firstInertia
          /\ IF ~assignmentsChanged
             THEN pc' = "finish" /\ UNCHANGED <<centroids, iterations>>
             ELSE /\ centroids' = RecomputeCentroids(vectors, assigned, centroids, dimension)
                  /\ iterations' = iterations + 1
                  /\ pc' = pc
          /\ overwritten' = IF assignmentsChanged
                            THEN overwritten \cup RowsStoredInto(assigned, centroidRow)
                            ELSE overwritten
    /\ UNCHANGED <<data, call, k, maxIterations, eps, minPts, indices, vectors,
                   dimension, s, usedIndices, safetyCounter, clusters, distanceCache, visited,
                   clusterId, i, seeds, result, previous, centroidRow, graph>>

\* Lines 2804-2819: the loop has ended, by break or by the cap.
KMeansReturn ==
    /\ call = "kmeans"
    /\ \/ pc = "finish"
       \/ pc = "iterate" /\ ~(iterations < maxIterations)
    /\ result' = [status |-> "returned",
                  labels |-> FullLabels(data, indices, labels),
                  centroids |-> centroids,
                  iterations |-> iterations,
                  inertia |-> ToFixed3(Inertia(vectors, labels, centroids))]
    /\ pc' = "done"
    /\ UNCHANGED <<data, call, k, maxIterations, eps, minPts, indices, vectors,
                   dimension, s, usedIndices, safetyCounter, centroids, labels,
                   iterations, clusters, distanceCache, visited, clusterId, i, seeds,
                   firstInertia, previous, centroidRow, overwritten, graph>>

\* The caller makes the same call once more.  Nothing of the call that has
\* returned is handed to the new one; what its locals held is left in place
\* here, for the declarations of the new call to replace.
KMeansAgain ==
    /\ call = "kmeans"
    /\ pc = "done"
    /\ previous.status = "none"
    /\ previous' = result
    /\ result' = Pending
    /\ pc' = "start"
    /\ UNCHANGED <<data, call, k, maxIterations, eps, minPts, indices, vectors,
                   dimension, s, usedIndices, safetyCounter, centroids, labels,
                   iterations, clusters, distanceCache, visited, clusterId, i, seeds,
                   firstInertia, centroidRow, overwritten, graph>>

NextKMeans ==
    \/ KMeansStart
    \/ KMeansDraw
    \/ KMeansSeeded
    \/ KMeansIterate
    \/ KMeansReturn
    \/ KMeansAgain

InitKMeans ==
    /\ data \in Batches
    /\ call = "kmeans"
    /\ k \in KChoices
    /\ maxIterations \in MaxIterationsChoices
    /\ eps = RatOfInt(0)
    /\ minPts = 0
    /\ Idle
    /\ graph = Unmounted

SpecKMeans == InitKMeans /\ [][NextKMeans]_vars

\* The calls whose runs are followed to their end: the matrices of
\* MaxRecords rows and the batches of the scenarios.
InitKMeansFair ==
    /\ InitKMeans
    /\ \/ IsMatrix(data) /\ Len(data) = MaxRecords
       \/ data \in {<<>>, TrivialBatch, OpposedBatch, DroppedRecordBatch, MalformedBatch}

\* When the loop of lines 2762-2802 can make another pass, and when the code
\* after it (lines 2804-2819) can run: the conditions under which
\* KMeansIterate and KMeansReturn are enabled.
IterateEnabled == call = "kmeans" /\ pc = "iterate" /\ iterations < maxIterations

ReturnEnabled ==
    /\ call = "kmeans"
    /\ pc = "finish" \/ (pc = "iterate" /\ ~(iterations < maxIterations))

\* The function is synchronous code on one thread: a call that can take its
\* next step takes it.  For the pass and the return, weak fairness is written
\* out with the enabling conditions above.
KMeansRuns ==
    /\ WF_vars(KMeansStart)
    /\ WF_vars(KMeansDraw)
    /\ WF_vars(KMeansSeeded)
    /\ []<>(~IterateEnabled) \/ []<><<KMeansIterate>>_vars
    /\ []<>(~ReturnEnabled) \/ []<><<KMeansReturn>>_vars

FairSpecKMeans == InitKMeansFair /\ [][NextKMeans]_vars /\ KMeansRuns

(***************************************************************************)
(* runAgglomerative (ConfigMgmt.tsx 2822-2909).                            *)
(***************************************************************************)
\* Math.sqrt in units of 1/SqrtScale, rounded down.
SqrtScale == 100

RECURSIVE SqrtBetween(_, _, _)
SqrtBetween(x, lo, hi) ==
    IF lo >= hi THEN lo
    ELSE LET mid == (lo + hi + 1) \div 2
         IN IF mid * mid <= x THEN SqrtBetween(x, mid, hi)
            ELSE SqrtBetween(x, lo, mid - 1)

SqrtScaled(x) == SqrtBetween(x * SqrtScale * SqrtScale, 0, 46340)

\* euclideanDistance of two matrix rows, in units of 1/SqrtScale.
euclideanDistance(a, b) == SqrtScaled(RowDistanceSq(a, b))

\* The key of the cache: the two member lists, in order (the code joins them
\* into one string, which names the two lists unambiguously).
CacheKey(clusterA, clusterB) == <<clusterA, clusterB>>

RECURSIVE PairDistanceSum(_, _, _)
PairDistanceSum(vecs, clusterA, clusterB) ==
    IF clusterA = <<>> THEN 0
    ELSE IntSum([b \in 1..Len(clusterB) |->
                    euclideanDistance(vecs[clusterA[1] + 1], vecs[clusterB[b] + 1])])
         + PairDistanceSum(vecs, Tail(clusterA), clusterB)

\* The distance computed on a cache miss: sum / (count || 1).
AverageLinkage(vecs, clusterA, clusterB) ==
    LET count == Len(clusterA) * Len(clusterB)
    IN Rat(PairDistanceSum(vecs, clusterA, clusterB), IF count = 0 THEN 1 ELSE count)

\* clusterDistance: the cached value when the key is cached.
clusterDistance(cache, vecs, clusterA, clusterB) ==
    IF CacheKey(clusterA, clusterB) \in DOMAIN cache
    THEN cache[CacheKey(clusterA, clusterB)]
    ELSE AverageLinkage(vecs, clusterA, clusterB)

\* The pairs (i, j), i < j, of 0-based cluster positions in scan order.
RECURSIVE PairsFrom(_, _, _)
PairsFrom(a, b, n) ==
    IF a >= n - 1 THEN <<>>
    ELSE IF b >= n THEN PairsFrom(a + 1, a + 2, n)
         ELSE <<<<a, b>>>> \o PairsFrom(a, b + 1, n)

ScanPairs(n) == PairsFrom(0, 1, n)

\* The double loop of lines 2863-2876 over the first m pairs of the scan.
RECURSIVE BestPairUpTo(_, _, _, _, _)
BestPairUpTo(cache, vecs, cls, pairs, m) ==
    IF m = 0 THEN [bestI |-> 0, bestJ |-> 1, infinite |-> TRUE, bestDistance |-> RatOfInt(0)]
    ELSE LET best == BestPairUpTo(cache, vecs, cls, pairs, m - 1)
             a == pairs[m][1]
             b == pairs[m][2]
             distance == clusterDistance(cache, vecs, cls[a + 1], cls[b + 1])
         IN IF best.infinite \/ RatLess(distance, best.bestDistance)
            THEN [bestI |-> a, bestJ |-> b, infinite |-> FALSE, bestDistance |-> distance]
            ELSE best

\* A faulty scan that lets a later pair at the same distance replace the best.
RECURSIVE BestPairLastUpTo(_, _, _, _, _)
BestPairLastUpTo(cache, vecs, cls, pairs, m) ==
    IF m = 0 THEN [bestI |-> 0, bestJ |-> 1, infinite |-> TRUE, bestDistance |-> RatOfInt(0)]
    ELSE Once(BestPairLastUpTo(cache, vecs, cls, pairs, m - 1), LAMBDA best :
         Once(clusterDistance(cache, vecs, cls[pairs[m][1] + 1], cls[pairs[m][2] + 1]),
              LAMBDA distance :
                 IF best.infinite \/ RatLeq(distance, best.bestDistance)
                 THEN [bestI |-> pairs[m][1], bestJ |-> pairs[m][2],
                       infinite |-> FALSE, bestDistance |-> distance]
                 ELSE best))

BestPairLastOnTies(cache, vecs, cls) ==
    BestPairLastUpTo(cache, vecs, cls, ScanPairs(Len(cls)), Len(ScanPairs(Len(cls))))

BestPair(cache, vecs, cls) ==
    BestPairUpTo(cache, vecs, cls, ScanPairs(Len(cls)), Len(ScanPairs(Len(cls))))

\* The cache after a scan of all pairs of cls.
CacheAfterScan(cache, vecs, cls) ==
    LET keys == { CacheKey(cls[p[1] + 1], cls[p[2] + 1]) :
                    p \in { ScanPairs(Len(cls))[m] : m \in 1..Len(ScanPairs(Len(cls))) } }
    IN [key \in DOMAIN cache \cup keys |->
          IF key \in DOMAIN cache THEN cache[key]
          ELSE AverageLinkage(vecs, key[1], key[2])]

\* A faulty merge without the first splice: cluster bestJ stays in the list.
MergeKeepsBoth(cls, bestI, bestJ) ==
    [cls EXCEPT ![bestI + 1] = cls[bestI + 1] \o cls[bestJ + 1]]

\* const merged = [...clusters[bestI], ...clusters[bestJ]];
\* clusters.splice(bestJ, 1); clusters.splice(bestI, 1, merged);
MergeClusters(cls, bestI, bestJ) ==
    LET merged == cls[bestI + 1] \o cls[bestJ + 1]
        without == [c \in 1..(Len(cls) - 1) |-> IF c < bestJ + 1 THEN cls[c] ELSE cls[c + 1]]
    IN [without EXCEPT ![bestI + 1] = merged]

\* clusters.forEach((cluster, clusterIdx) => cluster.forEach(nodeIdx => labels[nodeIdx] = clusterIdx))
RECURSIVE LabelMembers(_, _, _)
LabelMembers(lbls, members, c) ==
    IF members = <<>> THEN lbls
    ELSE LabelMembers([lbls EXCEPT ![members[1] + 1] = c], Tail(members), c)

RECURSIVE LabelClustersUpTo(_, _, _)
LabelClustersUpTo(lbls, cls, n) ==
    IF n = 0 THEN lbls
    ELSE LabelMembers(LabelClustersUpTo(lbls, cls, n - 1), cls[n], n - 1)

\* A faulty variant that numbers the clusters from 1.
ClusterLabelsOneBased(cls, n) ==
    [r \in 1..n |-> LabelClustersUpTo(Fill(n, 0), cls, Len(cls))[r] + 1]

ClusterLabels(cls, n) == LabelClustersUpTo(Fill(n, 0), cls, Len(cls))

\* A faulty guard that lets a target of 0 through.
TargetBelowZero(target) == target < 0

\* if (targetClusters < 1) return ...
TargetTooSmall(target) == target < 1

\* A faulty loop condition that stops one merge early.
MergeLoopStopsEarly(cls, target) == Len(cls) > target + 1

\* while (clusters.length > targetClusters)
MergeLoopRuns(cls, target) == Len(cls) > target

AggNoClusterResult(d) ==
    [status |-> "returned", labels |-> Fill(Len(d), -1), centroids |-> <<>>]

\* Lines 2823-2839: the guards, the normalization, the singleton clusters.
AggStart ==
    /\ call = "agglomerative"
    /\ pc = "start"
    /\ IF Len(data) = 0
       THEN /\ result' = [status |-> "returned", labels |-> <<>>, centroids |-> <<>>]
            /\ pc' = "done"
            /\ UNCHANGED <<indices, vectors, dimension, clusters>>
       ELSE LET ex == extractValidEmbeddings(data)
            IN /\ indices' = ex.indices
               /\ vectors' = ex.vectors
               /\ dimension' = ex.dimension
               /\ IF Len(ex.vectors) = 0 \/ ex.dimension = 0
                  THEN /\ result' = AggNoClusterResult(data)
                       /\ pc' = "done"
                       /\ UNCHANGED clusters
                  ELSE /\ clusters' = [r \in 1..Len(ex.vectors) |-> <<r - 1>>]
                       /\ IF TargetTooSmall(k)
                          THEN result' = AggNoClusterResult(data) /\ pc' = "done"
                          ELSE result' = result /\ pc' = "merge"
    /\ UNCHANGED <<data, call, k, maxIterations, eps, minPts, s, usedIndices,
                   safetyCounter, centroids, labels, iterations, distanceCache,
                   visited, clusterId, i, seeds,
                   firstInertia, previous, centroidRow, overwritten, graph>>

\* Lines 2862-2881: one turn of the while loop.
AggMerge ==
    /\ call = "agglomerative"
    /\ pc = "merge"
    /\ MergeLoopRuns(clusters, k)
    /\ LET best == BestPair(distanceCache, vectors, clusters)
       IN /\ clusters' = MergeClusters(clusters, best.bestI, best.bestJ)
          /\ distanceCache' = CacheAfterScan(distanceCache, vectors, clusters)
    /\ UNCHANGED <<data, call, k, maxIterations, eps, minPts, pc, indices,
                   vectors, dimension, s, usedIndices, safetyCounter, centroids,
                   labels, iterations, visited, clusterId, i, seeds, result,
                   firstInertia, previous, centroidRow, overwritten, graph>>

\* Lines 2883-2908: the loop has ended.
AggReturn ==
    /\ call = "agglomerative"
    /\ pc = "merge"
    /\ ~MergeLoopRuns(clusters, k)
    /\ labels' = ClusterLabels(clusters, Len(vectors))
    /\ centroids' = [c \in 1..Len(clusters) |-> MeanOf(vectors, clusters[c], dimension)]
    /\ result' = [status |-> "returned",
                  labels |-> FullLabels(data, indices, labels'),
                  centroids |-> centroids']
    /\ pc' = "done"
    /\ UNCHANGED <<data, call, k, maxIterations, eps, minPts, indices, vectors,
                   dimension, s, usedIndices, safetyCounter, iterations,
                   clusters, distanceCache, visited, clusterId, i, seeds,
                   firstInertia, previous, centroidRow, overwritten, graph>>

NextAgglomerative ==
    \/ AggStart
    \/ AggMerge
    \/ AggReturn

InitAgglomerative ==
    /\ data \in Batches
    /\ call = "agglomerative"
    /\ k \in KChoices
    /\ maxIterations = DefaultMaxIterations
    /\ eps = RatOfInt(0)
    /\ minPts = 0
    /\ Idle
    /\ graph = Unmounted

SpecAgglomerative == InitAgglomerative /\ [][NextAgglomerative]_vars

(***************************************************************************)
(* runDbscan (ConfigMgmt.tsx 2911-3008).                                   *)
(***************************************************************************)
\* euclideanDistance(a, b) <= eps, for the rational eps = e.n / e.d: the root
\* is never negative.
WithinEps(a, b, e) == e.n >= 0 /\ e.d * e.d * RowDistanceSq(a, b) <= e.n * e.n

\* regionQuery: the (0-based) rows within eps of row pointIdx, ascending.
RECURSIVE RegionUpTo(_, _, _, _)
RegionUpTo(vecs, pointIdx, e, n) ==
    IF n = 0 THEN <<>>
    ELSE IF WithinEps(vecs[pointIdx + 1], vecs[n], e)
         THEN Append(RegionUpTo(vecs, pointIdx, e, n - 1), n - 1)
         ELSE RegionUpTo(vecs, pointIdx, e, n - 1)

regionQuery(vecs, pointIdx, e) == RegionUpTo(vecs, pointIdx, e, Len(vecs))

\* A faulty test that does not count the row itself.
IsCoreWithoutSelf(neighbors, mp) == Len(neighbors) >= mp - 1

\* The negation of neighbors.length < minPts (line 2942), which is
\* currentNeighbors.length >= minPts (line 2957).
IsCore(neighbors, mp) == Len(neighbors) >= mp

Includes(sq, x) == \E j \in 1..Len(sq) : sq[j] = x

\* A faulty expansion that pushes no neighbour of a core row it reaches.
PushNone(stack, neighbors) == stack

\* currentNeighbors.forEach(n => { if (!seeds.includes(n)) seeds.push(n); })
RECURSIVE PushMissing(_, _)
PushMissing(stack, neighbors) ==
    IF neighbors = <<>> THEN stack
    ELSE PushMissing(IF Includes(stack, neighbors[1]) THEN stack
                     ELSE Append(stack, neighbors[1]),
                     Tail(neighbors))

\* Lines 2974-2994: one centroid per cluster id that has members.
RECURSIVE DbscanCentroidsUpTo(_, _, _, _)
DbscanCentroidsUpTo(vecs, lbls, dimn, c) ==
    IF c = 0 THEN <<>>
    ELSE LET before == DbscanCentroidsUpTo(vecs, lbls, dimn, c - 1)
             members == Members(lbls, c - 1)
         IN IF Len(members) = 0 THEN before
            ELSE Append(before, MeanOf(vecs, members, dimn))

\* fullLabels.filter((label) => label === -1).length
NoiseCount(full) == Cardinality({ r \in 1..Len(full) : full[r] = -1 })

\* Lines 2912-2925: the guards, the normalization and the declarations.
DbscanStart ==
    /\ call = "dbscan"
    /\ pc = "start"
    /\ IF Len(data) = 0
       THEN /\ result' = [status |-> "returned", labels |-> <<>>,
                          centroids |-> <<>>, noiseCount |-> 0]
            /\ pc' = "done"
            /\ UNCHANGED <<indices, vectors, dimension, labels, visited>>
       ELSE LET ex == extractValidEmbeddings(data)
            IN /\ indices' = ex.indices
               /\ vectors' = ex.vectors
               /\ dimension' = ex.dimension
               /\ IF Len(ex.vectors) = 0 \/ ex.dimension = 0
                  THEN /\ result' = [status |-> "returned",
                                     labels |-> Fill(Len(data), -1),
                                     centroids |-> <<>>,
                                     noiseCount |-> Len(data)]
                       /\ pc' = "done"
                       /\ UNCHANGED <<labels, visited>>
                  ELSE /\ labels' = Fill(Len(ex.vectors), -1)
                       /\ visited' = Fill(Len(ex.vectors), FALSE)
                       /\ result' = result
                       /\ pc' = "scan"
    /\ UNCHANGED <<data, call, k, maxIterations, eps, minPts, s, usedIndices,
                   safetyCounter, centroids, iterations, clusters,
                   distanceCache, clusterId, i, seeds,
                   firstInertia, previous, centroidRow, overwritten, graph>>

\* A faulty step that forgets to mark the row.
MarkNothing(vis, idx) == vis

\* visited[i] = true (line 2939), visited[current] = true (line 2955)
MarkVisited(vis, idx) == [vis EXCEPT ![idx + 1] = TRUE]

\* Lines 2937-2948: one turn of the outer for loop, up to the expansion.
DbscanScan ==
    /\ call = "dbscan"
    /\ pc = "scan"
    /\ i < Len(vectors)
    /\ IF visited[i + 1]
       THEN /\ i' = i + 1
            /\ UNCHANGED <<visited, labels, seeds, pc>>
       ELSE LET neighbors == regionQuery(vectors, i, eps)
            IN /\ visited' = MarkVisited(visited, i)
               /\ IF ~IsCore(neighbors, minPts)
                  THEN /\ labels' = [labels EXCEPT ![i + 1] = -1]
                       /\ i' = i + 1
                       /\ UNCHANGED <<seeds, pc>>
                  ELSE /\ labels' = [labels EXCEPT ![i + 1] = clusterId]
                       /\ seeds' = neighbors
                       /\ pc' = "expand"
                       /\ i' = i
    /\ UNCHANGED <<data, call, k, maxIterations, eps, minPts, indices, vectors,
                   dimension, s, usedIndices, safetyCounter, centroids,
                   iterations, clusters, distanceCache, clusterId, result,
                   firstInertia, previous, centroidRow, overwritten, graph>>

\* A faulty rule that labels every row taken from the stack.
LabelReachedAlways(lbls, current, id) == [lbls EXCEPT ![current + 1] = id]

\* if (labels[current] === -1) { labels[current] = clusterId; }
LabelReached(lbls, current, id) ==
    IF lbls[current + 1] = -1 THEN [lbls EXCEPT ![current + 1] = id] ELSE lbls

\* Lines 2950-2969: one turn of the while loop over the seed stack.
DbscanExpand ==
    /\ call = "dbscan"
    /\ pc = "expand"
    /\ Len(seeds) > 0
    /\ LET current == seeds[Len(seeds)]
           popped == SubSeq(seeds, 1, Len(seeds) - 1)
           currentNeighbors == regionQuery(vectors, current, eps)
       IN /\ IF ~visited[current + 1]
             THEN /\ visited' = MarkVisited(visited, current)
                  /\ seeds' = IF IsCore(currentNeighbors, minPts)
                              THEN PushMissing(popped, currentNeighbors)
                              ELSE popped
             ELSE /\ visited' = visited
                  /\ seeds' = popped
          /\ labels' = LabelReached(labels, current, clusterId)
    /\ UNCHANGED <<data, call, k, maxIterations, eps, minPts, pc, indices,
                   vectors, dimension, s, usedIndices, safetyCounter, centroids,
                   iterations, clusters, distanceCache, clusterId, i, result,
                   firstInertia, previous, centroidRow, overwritten, graph>>

\* Line 2971 and the loop increment: the seed stack is empty.
DbscanExpanded ==
    /\ call = "dbscan"
    /\ pc = "expand"
    /\ Len(seeds) = 0
    /\ clusterId' = clusterId + 1
    /\ i' = i + 1
    /\ pc' = "scan"
    /\ UNCHANGED <<data, call, k, maxIterations, eps, minPts, indices, vectors,
                   dimension, s, usedIndices, safetyCounter, centroids, labels,
                   iterations, clusters, distanceCache, visited, seeds, result,
                   firstInertia, previous, centroidRow, overwritten, graph>>

\* Lines 2974-3007: the outer loop has ended.
DbscanReturn ==
    /\ call = "dbscan"
    /\ pc = "scan"
    /\ ~(i < Len(vectors))
    /\ centroids' = DbscanCentroidsUpTo(vectors, labels, dimension, clusterId)
    /\ result' = [status |-> "returned",
                  labels |-> FullLabels(data, indices, labels),
                  centroids |-> centroids',
                  noiseCount |-> NoiseCount(FullLabels(data, indices, labels))]
    /\ pc' = "done"
    /\ UNCHANGED <<data, call, k, maxIterations, eps, minPts, indices, vectors,
                   dimension, s, usedIndices, safetyCounter, labels, iterations,
                   clusters, distanceCache, visited, clusterId, i, seeds,
                   firstInertia, previous, centroidRow, overwritten, graph>>

NextDbscan ==
    \/ DbscanStart
    \/ DbscanScan
    \/ DbscanExpand
    \/ DbscanExpanded
    \/ DbscanReturn

InitDbscan ==
    /\ data \in Batches \cup {BorderBatch}
    /\ eps \in EpsChoices
    /\ minPts \in MinPtsChoices
    /\ call = "dbscan"
    /\ k = 0
    /\ maxIterations = DefaultMaxIterations
    /\ Idle
    /\ graph = Unmounted

SpecDbscan == InitDbscan /\ [][NextDbscan]_vars

\* The conditions under which the steps of runDbscan are enabled: the guard
\* at the entry, the tests of the for loop (line 2937) and of the while loop
\* (line 2950).
DbscanStartEnabled == call = "dbscan" /\ pc = "start"
DbscanScanEnabled == call = "dbscan" /\ pc = "scan" /\ i < Len(vectors)
DbscanExpandEnabled == call = "dbscan" /\ pc = "expand" /\ Len(seeds) > 0
DbscanReturnEnabled == call = "dbscan" /\ pc = "scan" /\ ~(i < Len(vectors))

\* The function is synchronous code on one thread: a call that can take its
\* next step takes it.  Weak fairness of the steps that compute
\* neighbourhoods is written out with the enabling conditions above.
DbscanRuns ==
    /\ WF_vars(DbscanExpanded)
    /\ []<>(~DbscanStartEnabled) \/ []<><<DbscanStart>>_vars
    /\ []<>(~DbscanScanEnabled) \/ []<><<DbscanScan>>_vars
    /\ []<>(~DbscanExpandEnabled) \/ []<><<DbscanExpand>>_vars
    /\ []<>(~DbscanReturnEnabled) \/ []<><<DbscanReturn>>_vars

FairSpecDbscan == InitDbscan /\ [][NextDbscan]_vars /\ DbscanRuns

(***************************************************************************)
(* projectTo2D (ConfigMgmt.tsx 2567-2654).                                 *)
(*                                                                         *)
(* data[0].embedding.length (line 2574) and node.embedding.forEach (line   *)
(* 2578) read a property of the embedding without a guard: on a missing    *)
(* embedding they raise a TypeError.                                       *)
(*                                                                         *)
(* Numbers.  A number that is NaN is the code NaNEntry.  The mean and the  *)
(* covariance are kept as integers by a positive factor: centered holds    *)
(* n * (value - mean[idx]) and covariance the sums of products divided by  *)
(* their greatest common divisor.  A vector that normalize() returns is    *)
(* given by its direction: the integer vector D with coprime entries       *)
(* stands for D / |D|, of norm 1, and the zero vector for itself (norm 0:  *)
(* `|| 1` divides a zero vector by 1).  Positive factors change no         *)
(* direction, so the iteration on directions is the iteration of the       *)
(* code in real arithmetic.  A projected coordinate is the dot product of  *)
(* centered with D, in units of 1 / (n * |D|).                             *)
(***************************************************************************)
ProjectRaises(d) == \E r \in 1..Len(d) : d[r].kind # "array"

\* const dimension = data[0].embedding.length
ProjectionDimension(d) == Len(d[1].emb)

\* mean[idx] is NaN: a NaN was added to it, or it was undefined when the
\* first value was added (idx beyond dimension).
MeanIsNaN(d, idx) ==
    \/ idx > ProjectionDimension(d)
    \/ \E r \in 1..Len(d) : idx <= Len(d[r].emb) /\ ~IsFiniteEntry(d[r].emb[idx])

\* mean[idx] before the division by data.length
MeanSum(d, idx) ==
    IntSum([r \in 1..Len(d) |-> IF idx <= Len(d[r].emb) THEN d[r].emb[idx] ELSE 0])

\* centered[r], times data.length
centered(d, r) ==
    [idx \in 1..Len(d[r].emb) |->
        IF MeanIsNaN(d, idx) THEN NaNEntry
        ELSE Len(d) * d[r].emb[idx] - MeanSum(d, idx)]

\* Some product vector[i] * vector[j] of lines 2590-2596 is NaN: an entry of
\* centered is NaN or missing.  Every row of the covariance then holds a NaN.
CovarianceIsNaN(d) ==
    \E r \in 1..Len(d) : \E idx \in 1..ProjectionDimension(d) :
        idx > Len(d[r].emb) \/ centered(d, r)[idx] = NaNEntry

RECURSIVE GCDOfEntries(_)
GCDOfEntries(vec) ==
    IF vec = <<>> THEN 0 ELSE GCD(Abs(vec[1]), GCDOfEntries(Tail(vec)))

IsZeroVector(vec) == \A j \in 1..Len(vec) : vec[j] = 0

\* The covariance of a batch whose products are all finite, up to a positive
\* factor.
covariance(d) ==
    LET dim == ProjectionDimension(d)
    IN Once([r \in 1..Len(d) |-> centered(d, r)], LAMBDA rows :
       Once([a \in 1..dim |-> [b \in 1..dim |->
                IntSum([r \in 1..Len(d) |-> rows[r][a] * rows[r][b]])]], LAMBDA sums :
       Once(GCDOfEntries([a \in 1..dim |-> GCDOfEntries(sums[a])]), LAMBDA g :
       IF g = 0 THEN sums
       ELSE [a \in 1..dim |-> [b \in 1..dim |-> sums[a][b] \div g]])))

\* The rows of the batch lie on one line through their mean: the covariance
\* has rank 1 at most, and the iteration settles after its first step.
Collinear(d) ==
    \A r, q \in 1..Len(d) : \A a, b \in 1..ProjectionDimension(d) :
        centered(d, r)[a] * centered(d, q)[b] = centered(d, r)[b] * centered(d, q)[a]

\* normalize: vec / (norm || 1), as a direction.
normalize(vec) ==
    LET g == GCDOfEntries(vec)
    IN IF g = 0 THEN vec ELSE [j \in 1..Len(vec) |-> vec[j] \div g]

\* Lines 2621-2626: next = matrix * vector
MatrixTimesVector(matrix, vector) ==
    [a \in 1..Len(matrix) |->
        IntSum([b \in 1..Len(matrix) |-> matrix[a][b] * vector[b]])]

DotOfDirections(vecA, vecB) == IntSum([j \in 1..Len(vecA) |-> vecA[j] * vecB[j]])

\* Lines 2628-2633 for the one basis vector the code ever passes: next minus
\* its part along basis, times |basis|^2.  When next lies along basis the
\* difference is 0 in real arithmetic; what the code computes then is the
\* rounding error of the subtraction, which normalize() scales up to norm 1
\* unless it is exactly 0.  For one dimension it is exactly 0 (basis is [1]
\* and next - next * 1 * 1 = 0); otherwise its direction is residue, which
\* the model leaves open.
Orthogonalize(next, orthogonalTo, residue) ==
    IF orthogonalTo = <<>> THEN next
    ELSE LET basis == orthogonalTo[1]
         IN Once(normalize(next), LAMBDA along :
            Once([j \in 1..Len(next) |->
                     DotOfDirections(basis, basis) * along[j]
                     - DotOfDirections(along, basis) * basis[j]], LAMBDA exact :
            IF IsZeroVector(basis) \/ IsZeroVector(next) THEN next
            ELSE IF ~IsZeroVector(exact) \/ Len(next) = 1 THEN exact
            ELSE residue))

\* iterations = 120 (line 2611)
PowerIterations == 120

\* The for loop of lines 2620-2636.  A vector the loop body maps to itself
\* is what every later turn yields.
RECURSIVE PowerLoop(_, _, _, _, _)
PowerLoop(matrix, orthogonalTo, residue, vector, iter) ==
    IF iter = 0 THEN vector
    ELSE Once(MatrixTimesVector(matrix, vector), LAMBDA product :
         Once(normalize(Orthogonalize(product, orthogonalTo, residue)), LAMBDA next :
         IF next = vector THEN vector
         ELSE PowerLoop(matrix, orthogonalTo, residue, next, iter - 1)))

\* powerIteration: the eigenvector returned, for the values initial that
\* Math.random() gave (line 2612).
powerIteration(matrix, orthogonalTo, initial, residue) ==
    Once(normalize(initial), LAMBDA vector :
         PowerLoop(matrix, orthogonalTo, residue, vector, PowerIterations))

NaNPoint == [x |-> NaNEntry, y |-> NaNEntry]

\* dotProduct(vecA, vecB) = vecA.reduce((acc, val, idx) => acc + val * (vecB[idx] ?? 0), 0)
dotProduct(vecA, vecB) ==
    IF \E idx \in 1..Len(vecA) :
          \/ vecA[idx] = NaNEntry
          \/ idx <= Len(vecB) /\ vecB[idx] = NaNEntry
    THEN NaNEntry
    ELSE IntSum([idx \in 1..Len(vecA) |->
                    vecA[idx] * (IF idx <= Len(vecB) THEN vecB[idx] ELSE 0)])

\* What Math.random() may return for an entry of an initial vector (two
\* values of (0, 1), in thirds), and the entries of a rounding residue.
RandomChoices == {1, 2}
ResidueChoices == {-1, 0, 1}

\* What one call draws: the two initial vectors, and the direction of the
\* rounding residue of the second iteration.
Draws(d) ==
    IF Len(d) = 0 \/ ProjectRaises(d)
    THEN { [first |-> <<>>, second |-> <<>>, residue |-> <<>>] }
    ELSE [first : [1..ProjectionDimension(d) -> RandomChoices],
          second : [1..ProjectionDimension(d) -> RandomChoices],
          residue : [1..ProjectionDimension(d) -> ResidueChoices]]

projectTo2D(d, drawn) ==
    IF Len(d) = 0 THEN [status |-> "returned", components |-> <<>>, projected |-> <<>>]
    ELSE IF ProjectRaises(d) THEN [status |-> "raised"]
    ELSE IF CovarianceIsNaN(d)
    THEN Once(Fill(ProjectionDimension(d), NaNEntry), LAMBDA component :
         [status |-> "returned",
          components |-> <<component, component>>,
          projected |-> [r \in 1..Len(d) |->
                           [x |-> dotProduct(centered(d, r), component),
                            y |-> dotProduct(centered(d, r), component)]]])
    ELSE Once(covariance(d), LAMBDA matrix :
         Once(powerIteration(matrix, <<>>, drawn.first, drawn.residue), LAMBDA first :
         Once(powerIteration(matrix, <<first>>, drawn.second, drawn.residue),
              LAMBDA second :
         [status |-> "returned",
          components |-> <<first, second>>,
          projected |-> [r \in 1..Len(d) |->
                           [x |-> dotProduct(centered(d, r), first),
                            y |-> dotProduct(centered(d, r), second)]]])))

\* The batches on which the power iteration is followed to its end: those
\* the call returns early or raises on, those with a NaN in the covariance,
\* and those whose rows lie on one line.
Projectable(d) ==
    \/ Len(d) = 0
    \/ ProjectRaises(d)
    \/ CovarianceIsNaN(d)
    \/ Collinear(d)

ProjectCall ==
    /\ call = "project"
    /\ pc = "start"
    /\ \E drawn \in Draws(data) : result' = projectTo2D(data, drawn)
    /\ pc' = "done"
    /\ UNCHANGED <<data, call, k, maxIterations, eps, minPts, indices, vectors,
                   dimension, s, usedIndices, safetyCounter, centroids, labels,
                   iterations, clusters, distanceCache, visited, clusterId, i,
                   seeds,
                   firstInertia, previous, centroidRow, overwritten, graph>>

\* The caller projects the same batch once more.
ProjectAgain ==
    /\ call = "project"
    /\ pc = "done"
    /\ previous.status = "none"
    /\ result.status = "returned"
    /\ previous' = result
    /\ result' = Pending
    /\ pc' = "start"
    /\ UNCHANGED <<data, call, k, maxIterations, eps, minPts, indices, vectors,
                   dimension, s, usedIndices, safetyCounter, centroids, labels,
                   iterations, clusters, distanceCache, visited, clusterId, i,
                   seeds,
                   firstInertia, centroidRow, overwritten, graph>>

\* A call of extractValidEmbeddings on its own.
ExtractCall ==
    /\ call = "extract"
    /\ pc = "start"
    /\ LET ex == extractValidEmbeddings(data)
       IN /\ indices' = ex.indices
          /\ vectors' = ex.vectors
          /\ dimension' = ex.dimension
          /\ result' = [status |-> "returned", indices |-> ex.indices,
                        vectors |-> ex.vectors, dimension |-> ex.dimension]
    /\ pc' = "done"
    /\ UNCHANGED <<data, call, k, maxIterations, eps, minPts, s, usedIndices,
                   safetyCounter, centroids, labels, iterations, clusters,
                   distanceCache, visited, clusterId, i, seeds,
                   firstInertia, previous, centroidRow, overwritten, graph>>

InitProject ==
    /\ data \in { d \in Batches : Projectable(d) }
    /\ call = "project"
    /\ k = 0
    /\ maxIterations = DefaultMaxIterations
    /\ eps = RatOfInt(0)
    /\ minPts = 0
    /\ Idle
    /\ graph = Unmounted

\* The matrix as a batch: one record per row, the row its embedding.
AsBatch(vecs) == [r \in 1..Len(vecs) |-> ArrayEmbedding(vecs[r])]

\* The caller normalizes the matrix it got.
ExtractAgain ==
    /\ call = "extract"
    /\ pc = "done"
    /\ previous.status = "none"
    /\ previous' = result
    /\ data' = AsBatch(result.vectors)
    /\ result' = Pending
    /\ pc' = "start"
    /\ UNCHANGED <<call, k, maxIterations, eps, minPts, indices, vectors,
                   dimension, s, usedIndices, safetyCounter, centroids, labels,
                   iterations, clusters, distanceCache, visited, clusterId, i,
                   seeds, firstInertia, centroidRow, overwritten, graph>>

NextExtract ==
    \/ ExtractCall
    \/ ExtractAgain

NextProject ==
    \/ ProjectCall
    \/ ProjectAgain

SpecProject == InitProject /\ [][NextProject]_vars

InitExtract ==
    /\ data \in Batches
    /\ call = "extract"
    /\ k = 0
    /\ maxIterations = DefaultMaxIterations
    /\ eps = RatOfInt(0)
    /\ minPts = 0
    /\ Idle
    /\ graph = Unmounted

SpecExtract == InitExtract /\ [][NextExtract]_vars

(***************************************************************************)
(* The three clustering functions as functions of their arguments: each    *)
(* loop of the code run to its end.  The Graph component calls them.       *)
(***************************************************************************)
\* The while loop of lines 2738-2748, from the locals st on.
RECURSIVE SeedLoop(_, _, _)
SeedLoop(vecs, kk, st) ==
    IF ~(/\ Len(st.centroids) < TargetCentroids(kk, vecs)
         /\ st.safetyCounter < MaxAttempts(kk, vecs))
    THEN st.centroids
    ELSE Once(createSeededRandom(st.s), LAMBDA drawn :
         Once(RandIndex(drawn, Len(vecs)), LAMBDA index :
         Once([s |-> drawn,
               usedIndices |-> st.usedIndices \cup {index},
               safetyCounter |-> st.safetyCounter + 1,
               centroids |-> IF /\ index \notin st.usedIndices
                                /\ index \in 0..(Len(vecs) - 1)
                                /\ Len(vecs[index + 1]) # 0
                             THEN Append(st.centroids, RowAsCentroid(vecs[index + 1]))
                             ELSE st.centroids],
              LAMBDA after : SeedLoop(vecs, kk, after))))

\* The for loop of lines 2762-2802, from the locals st on.
RECURSIVE IterationLoop(_, _, _, _)
IterationLoop(vecs, dimn, maxIter, st) ==
    IF ~(st.iterations < maxIter) THEN st
    ELSE Once(AssignLabels(vecs, st.centroids), LAMBDA assigned :
         IF assigned = st.labels THEN st
         ELSE Once([labels |-> assigned,
                    centroids |-> RecomputeCentroids(vecs, assigned, st.centroids, dimn),
                    iterations |-> st.iterations + 1],
                   LAMBDA after : IterationLoop(vecs, dimn, maxIter, after)))

KMeansOf(d, ex, kk, maxIter) ==
    Once(SeedLoop(ex.vectors, kk,
                  [s |-> SeedWord(KMeansSeed), usedIndices |-> {},
                   safetyCounter |-> 0, centroids |-> <<>>]), LAMBDA seeded :
    IF Len(seeded) = 0 THEN KMeansNoCentroidResult(d)
    ELSE Once(IterationLoop(ex.vectors, ex.dimension, maxIter,
                            [labels |-> Fill(Len(ex.vectors), 0),
                             centroids |-> seeded, iterations |-> 0]), LAMBDA final :
         [status |-> "returned",
          labels |-> FullLabels(d, ex.indices, final.labels),
          centroids |-> final.centroids,
          iterations |-> final.iterations,
          inertia |-> ToFixed3(Inertia(ex.vectors, final.labels, final.centroids))]))

runKMeans(data0, kk, maxIter) ==
    Once(data0, LAMBDA d :
    IF Len(d) = 0 THEN KMeansEmptyResult
    ELSE Once(extractValidEmbeddings(d), LAMBDA ex :
         IF Len(ex.vectors) = 0 \/ ex.dimension = 0 THEN KMeansNoCentroidResult(d)
         ELSE KMeansOf(d, ex, kk, maxIter)))

\* The while loop of lines 2862-2881, from the locals st on.
RECURSIVE MergeLoop(_, _, _)
MergeLoop(vecs, target, st) ==
    IF ~MergeLoopRuns(st.clusters, target) THEN st.clusters
    ELSE Once(BestPair(st.distanceCache, vecs, st.clusters), LAMBDA best :
         Once([clusters |-> MergeClusters(st.clusters, best.bestI, best.bestJ),
               distanceCache |-> CacheAfterScan(st.distanceCache, vecs, st.clusters)],
              LAMBDA after : MergeLoop(vecs, target, after)))

runAgglomerative(data0, target) ==
    Once(data0, LAMBDA d :
    IF Len(d) = 0 THEN [status |-> "returned", labels |-> <<>>, centroids |-> <<>>]
    ELSE Once(extractValidEmbeddings(d), LAMBDA ex :
         IF Len(ex.vectors) = 0 \/ ex.dimension = 0 THEN AggNoClusterResult(d)
         ELSE IF TargetTooSmall(target) THEN AggNoClusterResult(d)
         ELSE Once(MergeLoop(ex.vectors, target,
                             [clusters |-> [r \in 1..Len(ex.vectors) |-> <<r - 1>>],
                              distanceCache |-> <<>>]), LAMBDA final :
              [status |-> "returned",
               labels |-> FullLabels(d, ex.indices, ClusterLabels(final, Len(ex.vectors))),
               centroids |-> [c \in 1..Len(final) |->
                                 MeanOf(ex.vectors, final[c], ex.dimension)]])))

\* The while loop of lines 2950-2969, from the locals st on.
RECURSIVE ExpandLoop(_, _, _, _, _)
ExpandLoop(vecs, e, mp, id, st) ==
    IF Len(st.seeds) = 0 THEN st
    ELSE Once(st.seeds[Len(st.seeds)], LAMBDA current :
         Once(regionQuery(vecs, current, e), LAMBDA currentNeighbors :
         Once([visited |-> [st.visited EXCEPT ![current + 1] = TRUE],
               seeds |-> IF ~st.visited[current + 1] /\ IsCore(currentNeighbors, mp)
                         THEN PushMissing(SubSeq(st.seeds, 1, Len(st.seeds) - 1),
                                          currentNeighbors)
                         ELSE SubSeq(st.seeds, 1, Len(st.seeds) - 1),
               labels |-> IF st.labels[current + 1] = -1
                          THEN [st.labels EXCEPT ![current + 1] = id]
                          ELSE st.labels],
              LAMBDA after : ExpandLoop(vecs, e, mp, id, after))))

\* One turn of the for loop of lines 2937-2972 on a row not yet visited.
ScanStep(vecs, e, mp, idx, st) ==
    Once(regionQuery(vecs, idx, e), LAMBDA neighbors :
    IF ~IsCore(neighbors, mp)
    THEN [visited |-> [st.visited EXCEPT ![idx + 1] = TRUE],
          labels |-> [st.labels EXCEPT ![idx + 1] = -1],
          clusterId |-> st.clusterId]
    ELSE Once(ExpandLoop(vecs, e, mp, st.clusterId,
                         [visited |-> [st.visited EXCEPT ![idx + 1] = TRUE],
                          seeds |-> neighbors,
                          labels |-> [st.labels EXCEPT ![idx + 1] = st.clusterId]]),
              LAMBDA grown : [visited |-> grown.visited, labels |-> grown.labels,
                              clusterId |-> st.clusterId + 1]))

\* The for loop of lines 2937-2972, from row idx on.
RECURSIVE ScanLoop(_, _, _, _, _)
ScanLoop(vecs, e, mp, idx, st) ==
    IF ~(idx < Len(vecs)) THEN st
    ELSE IF st.visited[idx + 1] THEN ScanLoop(vecs, e, mp, idx + 1, st)
    ELSE Once(ScanStep(vecs, e, mp, idx, st),
              LAMBDA after : ScanLoop(vecs, e, mp, idx + 1, after))

runDbscan(data0, e, mp) ==
    Once(data0, LAMBDA d :
    IF Len(d) = 0
    THEN [status |-> "returned", labels |-> <<>>, centroids |-> <<>>, noiseCount |-> 0]
    ELSE Once(extractValidEmbeddings(d), LAMBDA ex :
         IF Len(ex.vectors) = 0 \/ ex.dimension = 0
         THEN [status |-> "returned", labels |-> Fill(Len(d), -1),
               centroids |-> <<>>, noiseCount |-> Len(d)]
         ELSE Once(ScanLoop(ex.vectors, e, mp, 0,
                            [visited |-> Fill(Len(ex.vectors), FALSE),
                             labels |-> Fill(Len(ex.vectors), -1),
                             clusterId |-> 0]), LAMBDA final :
              Once(FullLabels(d, ex.indices, final.labels), LAMBDA fullLabels :
              [status |-> "returned",
               labels |-> fullLabels,
               centroids |-> DbscanCentroidsUpTo(ex.vectors, final.labels,
                                                 ex.dimension, final.clusterId),
               noiseCount |-> NoiseCount(fullLabels)]))))

(***************************************************************************)
(* Graph (ConfigMgmt.tsx 3026-3114): the four states of the component and  *)
(* the values its useMemo cells hold.  A cell recomputes its value in a    *)
(* render when one of its dependencies is not the one of the render        *)
(* before (Object.is); a value that comes out of a call is a new object.   *)
(* A record of the batch is its embedding; its key is its index.           *)
(***************************************************************************)
Algorithms == {"kmeans", "agglomerative", "dbscan"}

\* useState(8), useState(1.6), useState(8)
DefaultClusterCount == 8
DefaultDbscanEps == [n |-> 8, d |-> 5]
DefaultDbscanMinPts == 8

\* What the handlers may be handed: the slider gives 2..24, the two number
\* fields whatever is typed.
ClusterCountChoices == {2, 3, 24}
DbscanEpsChoices == { [n |-> 1, d |-> 1], [n |-> 10, d |-> 1] }
DbscanMinPtsChoices == {1, 2}

\* The batches generateSemanticNodes may stand for: every embedding a
\* finite vector of one dimension.
GraphBatches ==
    { d \in {OneDimensionalBatch, LineBatch} :
        IsMatrix(d) /\ Projectable(d) }

\* A faulty dependency list that leaves dbscanEps out.
ClusteringDepsWithoutEps(g) ==
    <<g.algorithm, g.baseNodes, g.clusterCount, g.dbscanMinPts>>

\* [algorithm, baseNodes, clusterCount, dbscanEps, dbscanMinPts]
ClusteringDeps(g) ==
    <<g.algorithm, g.baseNodes, g.clusterCount, g.dbscanEps, g.dbscanMinPts>>

\* Lines 3036-3046.
Clustering(g) ==
    LET safeClusterCount == Max(2, Min(g.clusterCount, 24))
    IN IF g.algorithm = "kmeans"
       THEN runKMeans(g.baseNodes, safeClusterCount, DefaultMaxIterations)
       ELSE IF g.algorithm = "agglomerative"
       THEN runAgglomerative(g.baseNodes, safeClusterCount)
       ELSE runDbscan(g.baseNodes, g.dbscanEps, g.dbscanMinPts)

\* Lines 3048-3055.
EnrichedNodes(baseNodes, projected, lbls) ==
    [idx \in 1..Len(baseNodes) |->
        [key |-> idx - 1,
         x |-> IF idx <= Len(projected) THEN projected[idx].x ELSE 0,
         y |-> IF idx <= Len(projected) THEN projected[idx].y ELSE 0,
         clusterId |-> IF idx <= Len(lbls) THEN lbls[idx] ELSE -1]]

\* The keys of the Map grouped, in insertion order.
RECURSIVE GroupedIds(_, _)
GroupedIds(nodes, n) ==
    IF n = 0 THEN <<>>
    ELSE Once(GroupedIds(nodes, n - 1), LAMBDA before :
         IF Includes(before, nodes[n].clusterId) THEN before
         ELSE Append(before, nodes[n].clusterId))

\* A faulty aggregation that leaves the insights in the order of the Map.
KeepInsertionOrder(insights) == insights

\* insights.sort((a, b) => b.size - a.size): stable, larger sizes first.
RECURSIVE SortBySize(_)
SortBySize(insights) ==
    IF insights = <<>> THEN <<>>
    ELSE Once(SortBySize(SubSeq(insights, 1, Len(insights) - 1)), LAMBDA sorted :
         SelectSeq(sorted, LAMBDA x : x.size >= insights[Len(insights)].size)
            \o <<insights[Len(insights)]>>
            \o SelectSeq(sorted, LAMBDA x : x.size < insights[Len(insights)].size))

\* Lines 3082-3111: the insight of one group, for the fields that do not
\* read the metadata of a record.
InsightOf(id, bucket) ==
    [id |-> id,
     size |-> Len(bucket),
     sampleKeys |-> [m \in 1..Min(4, Len(bucket)) |-> bucket[m].key]]

\* Lines 3074-3114.
ClusterInsights(enriched) ==
    Once(enriched, LAMBDA nodes :
    Once(GroupedIds(nodes, Len(nodes)), LAMBDA ids :
    Once([g \in 1..Len(ids) |->
            InsightOf(ids[g], SelectSeq(nodes, LAMBDA node : node.clusterId = ids[g]))],
         LAMBDA insights : SortBySize(insights))))

\* The cells that depend on the clustering, from its value on.
Derived(states, clustering) ==
    Once(EnrichedNodes(states.baseNodes, states.projected, clustering.labels),
         LAMBDA enrichedNodes :
            [algorithm |-> states.algorithm,
             clusterCount |-> states.clusterCount,
             dbscanEps |-> states.dbscanEps,
             dbscanMinPts |-> states.dbscanMinPts,
             baseNodes |-> states.baseNodes,
             projected |-> states.projected,
             clustering |-> clustering,
             enrichedNodes |-> enrichedNodes,
             clusterInsights |-> ClusterInsights(enrichedNodes)])

\* One render: the cells whose dependencies changed since the render that
\* gave old are recomputed, in the order of the hooks.  baseNodes (no
\* dependency) and projected (baseNodes) keep their values.
Render(states, old) ==
    Once(states, LAMBDA next :
    IF ClusteringDeps(next) # ClusteringDeps(old)
    THEN Once(Clustering(next), LAMBDA clustering : Derived(next, clustering))
    ELSE next)

\* The first render.
Mounted(baseNodes, projected) ==
    Once([algorithm |-> "kmeans",
          clusterCount |-> DefaultClusterCount,
          dbscanEps |-> DefaultDbscanEps,
          dbscanMinPts |-> DefaultDbscanMinPts,
          baseNodes |-> baseNodes,
          projected |-> projected], LAMBDA states :
    Once(Clustering(states), LAMBDA clustering : Derived(states, clustering)))

GraphUnchanged ==
    UNCHANGED <<data, call, k, maxIterations, eps, minPts, pc, indices, vectors,
                dimension, s, usedIndices, safetyCounter, centroids, labels,
                iterations, clusters, distanceCache, visited, clusterId, i, seeds,
                result, firstInertia, previous, centroidRow, overwritten>>

setAlgorithm ==
    /\ call = "graph"
    /\ \E value \in Algorithms :
          graph' = Render([graph EXCEPT !.algorithm = value], graph)
    /\ GraphUnchanged

setClusterCount ==
    /\ call = "graph"
    /\ \E value \in ClusterCountChoices :
          graph' = Render([graph EXCEPT !.clusterCount = value], graph)
    /\ GraphUnchanged

setDbscanEps ==
    /\ call = "graph"
    /\ \E value \in DbscanEpsChoices :
          graph' = Render([graph EXCEPT !.dbscanEps = value], graph)
    /\ GraphUnchanged

setDbscanMinPts ==
    /\ call = "graph"
    /\ \E value \in DbscanMinPtsChoices :
          graph' = Render([graph EXCEPT !.dbscanMinPts = value], graph)
    /\ GraphUnchanged

NextGraph ==
    \/ setAlgorithm
    \/ setClusterCount
    \/ setDbscanEps
    \/ setDbscanMinPts

InitGraph ==
    /\ data \in GraphBatches
    /\ call = "graph"
    /\ k = DefaultClusterCount
    /\ maxIterations = DefaultMaxIterations
    /\ eps = DefaultDbscanEps
    /\ minPts = DefaultDbscanMinPts
    /\ Idle
    /\ \E drawn \in Draws(data) :
          graph = Mounted(data, projectTo2D(data, drawn).projected)

SpecGraph == InitGraph /\ [][NextGraph]_vars

(***************************************************************************)
(* The aggregation of lines 3074-3114 on its own: the enriched records of  *)
(* any labelling of up to MaxInsightNodes records by the labels            *)
(* -1..MaxInsightLabel.                                                    *)
(***************************************************************************)
MaxInsightNodes == 4
MaxInsightLabel == 2

\* The enriched records of a labelling: the cluster label is all that the
\* aggregation reads of a record here, besides its key.
InsightNodes(lbls) ==
    EnrichedNodes([r \in 1..Len(lbls) |-> ArrayEmbedding(<<0>>)], <<>>, lbls)

InsightsCall ==
    /\ call = "insights"
    /\ pc = "start"
    /\ result' = [status |-> "returned",
                  insights |-> ClusterInsights(InsightNodes(labels))]
    /\ pc' = "done"
    /\ UNCHANGED <<data, call, k, maxIterations, eps, minPts, indices, vectors,
                   dimension, s, usedIndices, safetyCounter, centroids, labels,
                   iterations, clusters, distanceCache, visited, clusterId, i, seeds,
                   firstInertia, previous, centroidRow, overwritten, graph>>

NextInsights == InsightsCall

InitInsights ==
    /\ data = <<>>
    /\ call = "insights"
    /\ k = 0
    /\ maxIterations = DefaultMaxIterations
    /\ eps = RatOfInt(0)
    /\ minPts = 0
    /\ pc = "start"
    /\ indices = <<>>
    /\ vectors = <<>>
    /\ dimension = 0
    /\ s = SeedWord(KMeansSeed)
    /\ usedIndices = {}
    /\ safetyCounter = 0
    /\ centroids = <<>>
    /\ labels \in SeqsUpTo((-1)..MaxInsightLabel, MaxInsightNodes)
    /\ iterations = 0
    /\ clusters = <<>>
    /\ distanceCache = <<>>
    /\ visited = <<>>
    /\ clusterId = 0
    /\ i = 0
    /\ seeds = <<>>
    /\ result = Pending
    /\ firstInertia = RatOfInt(0)
    /\ previous = NoPrevious
    /\ centroidRow = <<>>
    /\ overwritten = {}
    /\ graph = Unmounted

SpecInsights == InitInsights /\ [][NextInsights]_vars

(***************************************************************************)
(* Every engine call on every batch.                                       *)
(***************************************************************************)
Init ==
    \/ InitKMeans
    \/ InitAgglomerative
    \/ InitDbscan
    \/ InitProject
    \/ InitExtract
    \/ InitGraph

Next ==
    \/ KMeansStart
    \/ KMeansDraw
    \/ KMeansSeeded
    \/ KMeansIterate
    \/ KMeansReturn
    \/ KMeansAgain
    \/ AggStart
    \/ AggMerge
    \/ AggReturn
    \/ DbscanStart
    \/ DbscanScan
    \/ DbscanExpand
    \/ DbscanExpanded
    \/ DbscanReturn
    \/ ProjectCall
    \/ ProjectAgain
    \/ ExtractCall
    \/ ExtractAgain
    \/ setAlgorithm
    \/ setClusterCount
    \/ setDbscanEps
    \/ setDbscanMinPts

Spec == Init /\ [][Next]_vars

(***************************************************************************)
(* Vocabulary of the properties.                                           *)
(***************************************************************************)
ClusteringCalls == {"kmeans", "agglomerative", "dbscan"}

Done == pc = "done"

\* The call has returned a labelling.
Labelled == Done /\ call \in ClusteringCalls /\ result.status = "returned"

\* The records of the batch that yield a matrix row, by 1-based position.
Survivors == { r \in 1..Len(data) : ~IsDropped(data[r]) }

\* The matrix row (1-based) of the surviving record at position r: its rank
\* among the survivors.
RowOf(r) == Cardinality({ q \in Survivors : q <= r })

\* The labels the call returned for the surviving records.
SurvivorLabels == { result.labels[r] : r \in Survivors }

AllNoise == \A r \in 1..Len(result.labels) : result.labels[r] = -1

(***************************************************************************)
(* C1.  Completeness: for K-Means, Agglomerative and DBSCAN and every      *)
(* non-empty batch of n records the returned labels array has exactly n    *)
(* entries in input order; a record the normalizer dropped gets -1 and     *)
(* every surviving record gets the label computed for its own matrix row.  *)
(***************************************************************************)
C1_Completeness ==
    (Labelled /\ Len(data) > 0) =>
        /\ Len(result.labels) = Len(data)
        /\ \A r \in 1..Len(data) : IsDropped(data[r]) => result.labels[r] = -1
        /\ Len(labels) > 0 =>
              /\ Len(labels) = Cardinality(Survivors)
              /\ \A r \in Survivors : result.labels[r] = labels[RowOf(r)]

\* A dropped record precedes a surviving one, whose own row label (not the
\* label of the row at its record position) has come back.
C1_Witness ==
    /\ Labelled
    /\ \E r \in 1..Len(data) : \E q \in Survivors :
          /\ r < q
          /\ IsDropped(data[r])
          /\ result.labels[q] >= 0
          /\ \E v \in 1..Len(labels) : labels[v] # result.labels[q]

(***************************************************************************)
(* C2.  Label domain, as claimed: every returned label is -1 or an integer *)
(* l with 0 <= l < c, c the number of returned centroids; c never exceeds  *)
(* the requested k / target for K-Means and Agglomerative; the             *)
(* non-negative DBSCAN labels are exactly 0..m-1, ids being issued in      *)
(* discovery order starting at 0.                                          *)
(***************************************************************************)
LabelsWithinCentroids ==
    \A r \in 1..Len(result.labels) :
        result.labels[r] = -1 \/ result.labels[r] \in 0..(Len(result.centroids) - 1)

\* The ids in use among the rows are exactly those below n.
IdsArePrefix(lbls, n) == { lbls[r] : r \in 1..Len(lbls) } \ {-1} = 0..(n - 1)

\* While DBSCAN runs, the ids of the finished clusters are exactly
\* 0..clusterId-1 and the cluster being expanded carries the id clusterId.
DbscanIdsInDiscoveryOrder ==
    (call = "dbscan" /\ pc \in {"scan", "expand"}) =>
        IdsArePrefix(labels, IF pc = "expand" THEN clusterId + 1 ELSE clusterId)

\* While K-Means runs, every row label names a centroid.
KMeansLabelsNameCentroids ==
    (call = "kmeans" /\ pc \in {"iterate", "finish"}) =>
        \A r \in 1..Len(labels) : labels[r] \in 0..(Len(centroids) - 1)

C2_LabelDomain_AsClaimed ==
    Labelled =>
        /\ LabelsWithinCentroids
        /\ call \in {"kmeans", "agglomerative"} => Len(result.centroids) <= k
        /\ call = "dbscan" => IdsArePrefix(result.labels, Len(result.centroids))

\* C2 as amended: the same, the number of centroids being bounded by the
\* requested k / target only when that is not negative (a negative request
\* returns no centroid).
C2_LabelDomain ==
    /\ DbscanIdsInDiscoveryOrder
    /\ KMeansLabelsNameCentroids
    /\ Labelled =>
          /\ LabelsWithinCentroids
          /\ call \in {"kmeans", "agglomerative"} =>
                Len(result.centroids) <= Max(k, 0)
          /\ call = "dbscan" => IdsArePrefix(result.labels, Len(result.centroids))

\* DBSCAN has returned two clusters and a noise row.
C2_Witness ==
    /\ Labelled
    /\ call = "dbscan"
    /\ Len(result.centroids) = 2
    /\ { result.labels[r] : r \in 1..Len(result.labels) } = {-1, 0, 1}

(***************************************************************************)
(* C3.  Trivial K-Means: the rows [0,0], [0,0], [10,10], [10,10] with      *)
(* k = 2 come back as two clusters of two rows each, with the centroids    *)
(* [0,0] and [10,10] and inertia 0.                                        *)
(***************************************************************************)
C3_TrivialKMeans ==
    (call = "kmeans" /\ Done /\ data = TrivialBatch /\ k = 2) =>
        /\ result.labels[1] = result.labels[2]
        /\ result.labels[3] = result.labels[4]
        /\ result.labels[1] # result.labels[3]
        /\ { result.centroids[c] : c \in 1..Len(result.centroids) }
              = { RowAsCentroid(<<0, 0>>), RowAsCentroid(<<10, 10>>) }
        /\ Len(result.centroids) = 2
        /\ result.inertia = RatOfInt(0)

C5_NeverRaises == Done => result.status = "returned"

(***************************************************************************)
(* C6.  K-Means and k, as claimed: with at least one valid row, k is       *)
(* clamped to [1, n], so that the call always returns at least one         *)
(* centroid and every valid row gets a non-negative label.                 *)
(***************************************************************************)
C6_KClamped_AsClaimed ==
    (call = "kmeans" /\ Done /\ Cardinality(Survivors) >= 1) =>
        /\ result.status = "returned"
        /\ Len(result.centroids) \in 1..Cardinality(Survivors)
        /\ \A r \in Survivors : result.labels[r] >= 0

\* C6 as amended: k is bounded above by n but not raised to 1.  For k >= 1
\* the call returns between 1 and min(k, n) centroids and every valid row
\* gets a non-negative label; for k < 1 it returns no centroid and every
\* label is -1; no k raises an error.
C6_KBoundedAbove ==
    (call = "kmeans" /\ Done /\ Cardinality(Survivors) >= 1) =>
        /\ result.status = "returned"
        /\ k >= 1 =>
              /\ Len(result.centroids) \in 1..Min(k, Cardinality(Survivors))
              /\ \A r \in Survivors : result.labels[r] >= 0
        /\ k < 1 =>
              /\ result.centroids = <<>>
              /\ AllNoise
              /\ Len(result.labels) = Len(data)

\* A call with k < 1 on a batch with a valid row has returned.
C6_Witness ==
    /\ call = "kmeans"
    /\ Done
    /\ k < 1
    /\ Cardinality(Survivors) >= 2
    /\ AllNoise

(***************************************************************************)
(* C7.  Agglomerative cluster count: with n >= 1 valid rows and            *)
(* target >= 1 the call ends with exactly min(target, n) clusters; the     *)
(* valid rows carry exactly the labels 0..min(target, n)-1; target = 1     *)
(* labels every row 0; target >= n merges nothing and leaves each row      *)
(* alone in its cluster.                                                   *)
(***************************************************************************)
C7_AggClusterCount ==
    (call = "agglomerative" /\ Done /\ Cardinality(Survivors) >= 1 /\ k >= 1) =>
        LET n == Cardinality(Survivors)
            m == Min(k, n)
        IN /\ Len(result.centroids) = m
           /\ Len(clusters) = m
           /\ SurvivorLabels = 0..(m - 1)
           /\ k = 1 => \A r \in Survivors : result.labels[r] = 0
           /\ k >= n =>
                 /\ clusters = [r \in 1..n |-> <<r - 1>>]
                 /\ \A r \in Survivors : result.labels[r] = RowOf(r) - 1

\* Three rows have been merged into two clusters.
C7_Witness ==
    /\ call = "agglomerative"
    /\ Done
    /\ Cardinality(Survivors) = 3
    /\ k = 2
    /\ SurvivorLabels = {0, 1}

(***************************************************************************)
(* C8.  Agglomerative target, as claimed: a target below 1 on a non-empty  *)
(* matrix behaves like target = 1, every row labeled 0 with one centroid.  *)
(***************************************************************************)
C8_AggTargetClamped_AsClaimed ==
    (call = "agglomerative" /\ Done /\ Cardinality(Survivors) >= 1 /\ k < 1) =>
        /\ \A r \in Survivors : result.labels[r] = 0
        /\ Len(result.centroids) = 1

\* C8 as amended: a target below 1 is not clamped; on a non-empty matrix
\* the call merges nothing and returns every label -1 and no centroid.
C8_AggTargetBelowOne ==
    (call = "agglomerative" /\ Cardinality(Survivors) >= 1 /\ k < 1) =>
        /\ pc # "merge"
        /\ Done =>
              /\ result.status = "returned"
              /\ Len(result.labels) = Len(data)
              /\ AllNoise
              /\ result.centroids = <<>>
              /\ clusters = [r \in 1..Cardinality(Survivors) |-> <<r - 1>>]

\* A call with a target below 1 on two or more valid rows has returned.
C8_Witness ==
    /\ call = "agglomerative"
    /\ Done
    /\ k < 1
    /\ Cardinality(Survivors) >= 2
    /\ result.centroids = <<>>

(***************************************************************************)
(* C9.  DBSCAN without a core row: if no row has at least minPts rows      *)
(* (itself included) within eps, every label is -1, no centroid is         *)
(* returned and noiseCount is the number of rows of the batch; the rows    *)
(* [0,0], [100,100] with eps = 1 and minPts = 2 give [-1,-1] and 2.        *)
(***************************************************************************)
\* The rows within eps of the matrix row v (1-based), v itself included.
Neighbourhood(v) == { w \in 1..Len(vectors) : WithinEps(vectors[v], vectors[w], eps) }

CoreRows == { v \in 1..Len(vectors) : Cardinality(Neighbourhood(v)) >= minPts }

C9_DbscanNoCore ==
    (call = "dbscan" /\ Done /\ Len(data) > 0 /\ CoreRows = {}) =>
        /\ Len(result.labels) = Len(data)
        /\ AllNoise
        /\ result.centroids = <<>>
        /\ result.noiseCount = Len(data)

\* The scenario of the claim has run.
C9_Witness ==
    /\ call = "dbscan"
    /\ Done
    /\ data = <<ArrayEmbedding(<<0, 0>>), ArrayEmbedding(<<100, 100>>)>>
    /\ eps = RatOfInt(1)
    /\ minPts = 2
    /\ result.labels = <<-1, -1>>
    /\ result.noiseCount = 2

(***************************************************************************)
(* C10.  DBSCAN with eps <= 0 or minPts <= 0 on a non-empty matrix yields  *)
(* all-noise output: every label -1, no centroid, noiseCount the number    *)
(* of rows.                                                                *)
(***************************************************************************)
C10_DbscanDegenerateParams ==
    (call = "dbscan" /\ Done /\ Cardinality(Survivors) >= 1
        /\ (RatLeq(eps, RatOfInt(0)) \/ minPts <= 0)) =>
        /\ AllNoise
        /\ result.centroids = <<>>
        /\ result.noiseCount = Len(data)

(***************************************************************************)
(* C11.  K-Means is deterministic: a second run on the same batch with the *)
(* same k and iteration cap returns the labels, centroids, iteration count *)
(* and inertia of the first; nothing the first call left behind (the       *)
(* state of its generator, its centroid arrays) reaches the second, which  *)
(* starts from a new generator and draws the same indices.                 *)
(***************************************************************************)
C11_KMeansDeterministic ==
    (call = "kmeans" /\ previous.status # "none") =>
        /\ pc = "seed" /\ safetyCounter = 0 => s = SeedWord(KMeansSeed) /\ centroids = <<>>
        /\ Done =>
              /\ result.labels = previous.labels
              /\ result.centroids = previous.centroids
              /\ result.iterations = previous.iterations
              /\ result.inertia = previous.inertia

\* A second run that drew several times and iterated has returned two
\* centroids or more.
C11_Witness ==
    /\ call = "kmeans"
    /\ Done
    /\ previous.status = "returned"
    /\ safetyCounter >= 2
    /\ result.iterations >= 1
    /\ Len(result.centroids) >= 2

(***************************************************************************)
(* C12.  The initial power-iteration vectors of the Projector are          *)
(* determined by a seed the caller can fix: two runs of the projection on  *)
(* the same matrix return identical basis vectors and identical 2D         *)
(* points.                                                                 *)
(***************************************************************************)
C12_ProjectionRepeatable ==
    (call = "project" /\ Done /\ previous.status = "returned") =>
        /\ result.components = previous.components
        /\ result.projected = previous.projected

(***************************************************************************)
(* C13.  For every non-empty matrix, d = 1, a single row and identical     *)
(* rows included, each of the two basis vectors the Projector returns has  *)
(* unit norm and their dot product is zero.                                *)
(***************************************************************************)
C13_BasisOrthonormal ==
    (call = "project" /\ Done /\ IsMatrix(data)) =>
        /\ result.status = "returned"
        /\ Len(result.components) = 2
        /\ ~IsZeroVector(result.components[1])
        /\ ~IsZeroVector(result.components[2])
        /\ DotOfDirections(result.components[1], result.components[2]) = 0

(***************************************************************************)
(* C14.  Normalization of a batch whose records either miss their          *)
(* embedding (null) or carry a valid vector of one common dimension: the   *)
(* matrix has one row per valid record, in input order, and the index map  *)
(* is the strictly increasing list of the valid records' indices, without  *)
(* the index of any malformed record; a four-record batch with one null    *)
(* among vectors of dimension 3 gives exactly 3 rows.                      *)
(***************************************************************************)
IsValidVector(item, dim) ==
    /\ item.kind = "array"
    /\ Len(item.emb) = dim
    /\ \A j \in 1..dim : IsFiniteEntry(item.emb[j])

\* Every record is null or a valid vector of the dimension dim.
NullsAmongVectors(d, dim) ==
    \A r \in 1..Len(d) : d[r] = NullEmbedding \/ IsValidVector(d[r], dim)

StrictlyIncreasing(sq) == \A a, b \in 1..Len(sq) : a < b => sq[a] < sq[b]

C14_DropsNullRecords ==
    (call = "extract" /\ Done) =>
        \A dim \in { Len(data[r].emb) : r \in 1..Len(data) } \ {0} :
            NullsAmongVectors(data, dim) =>
                LET valid == { r \in 1..Len(data) : data[r] # NullEmbedding }
                IN /\ Len(result.vectors) = Cardinality(valid)
                   /\ Len(result.indices) = Cardinality(valid)
                   /\ StrictlyIncreasing(result.indices)
                   /\ { result.indices[v] : v \in 1..Len(result.indices) }
                         = { r - 1 : r \in valid }
                   /\ \A v \in 1..Len(result.vectors) :
                         result.vectors[v] = data[result.indices[v] + 1].emb

\* The scenario has run: three rows, and the record at index 1 is not in
\* the index map.
C14_Witness ==
    /\ call = "extract"
    /\ Done
    /\ data = DroppedRecordBatch
    /\ Len(result.vectors) = 3
    /\ result.indices = <<0, 2, 3>>

(***************************************************************************)
(* C15.  Normalization is idempotent: a batch whose embeddings are all     *)
(* finite and of one length d >= 1 comes back as the matrix of its own     *)
(* vectors, row for row, with the identity index map; so normalizing the   *)
(* matrix that a normalization returned gives that matrix again, for       *)
(* every batch.                                                            *)
(***************************************************************************)
IdentityMap(n) == [v \in 1..n |-> v - 1]

C15_Idempotent ==
    (call = "extract" /\ Done) =>
        /\ IsMatrix(data) =>
              /\ result.vectors = [r \in 1..Len(data) |-> data[r].emb]
              /\ result.indices = IdentityMap(Len(data))
              /\ result.dimension = Len(data[1].emb)
        /\ previous.status = "returned" =>
              /\ data = AsBatch(previous.vectors)
              /\ result.vectors = previous.vectors
              /\ result.indices = IdentityMap(Len(previous.vectors))
              /\ result.dimension = previous.dimension

\* The matrix of a batch that lost a record and had a row padded has been
\* normalized again.
C15_Witness ==
    /\ call = "extract"
    /\ Done
    /\ previous.status = "returned"
    /\ Len(previous.vectors) >= 2
    /\ previous.indices # IdentityMap(Len(previous.vectors))
    /\ \E v \in 1..Len(result.vectors) : \E j \in 1..Len(result.vectors[v]) :
          result.vectors[v][j] = 0
    /\ result.vectors = previous.vectors

(***************************************************************************)
(* C16.  Dropping, as claimed: the normalizer drops a record if and only   *)
(* if its embedding is missing, is not an array, is empty, or contains an  *)
(* entry that is not a number; every other record yields exactly one       *)
(* matrix row.                                                             *)
(***************************************************************************)
\* The records (1-based) whose index the index map holds.
RecordsWithRow == { result.indices[v] + 1 : v \in 1..Len(result.indices) }

HasNonNumber(item) == \E j \in 1..Len(item.emb) : ~IsFiniteEntry(item.emb[j])

C16_DropRule_AsClaimed ==
    (call = "extract" /\ Done) =>
        /\ \A r \in 1..Len(data) :
              r \notin RecordsWithRow <=>
                  \/ data[r].kind # "array"
                  \/ Len(data[r].emb) = 0
                  \/ HasNonNumber(data[r])
        /\ Len(result.vectors) = Cardinality(RecordsWithRow)

\* C16 as amended: a record is dropped if and only if its embedding is
\* missing, is not an array or is empty; every other record yields exactly
\* one matrix row, an entry that is not a finite number being replaced by 0
\* in that row.
C16_DropRule ==
    (call = "extract" /\ Done) =>
        /\ \A r \in 1..Len(data) :
              r \notin RecordsWithRow <=>
                  \/ data[r].kind # "array"
                  \/ Len(data[r].emb) = 0
        /\ Len(result.vectors) = Cardinality(RecordsWithRow)
        /\ Len(result.indices) = Cardinality(RecordsWithRow)
        /\ \A v \in 1..Len(result.vectors) :
              LET emb == data[result.indices[v] + 1].emb
              IN \A j \in 1..Min(Len(emb), Len(result.vectors[v])) :
                    result.vectors[v][j] = IF IsFiniteEntry(emb[j]) THEN emb[j] ELSE 0

\* The batch with every kind of malformed embedding has been normalized:
\* the record with a non-numeric entry has its row.
C16_Witness ==
    /\ call = "extract"
    /\ Done
    /\ data = MalformedBatch
    /\ result.indices = <<3, 4>>
    /\ result.vectors = << <<0, 7>>, <<1, 2>> >>

(***************************************************************************)
(* C17: in the graph view, after any sequence of changes to the algorithm, *)
(* the cluster count, eps and minPts, the clustering, the enriched records *)
(* and the cluster insights in use are those of the selected algorithm run *)
(* with the current parameters (cluster count clamped to 2..24) on the     *)
(* batch, and no change of a parameter changes the 2D projection.          *)
(***************************************************************************)
ClampedClusterCount(count) == IF count < 2 THEN 2 ELSE IF count > 24 THEN 24 ELSE count

ResultInUse(g) ==
    IF g.algorithm = "kmeans"
    THEN runKMeans(g.baseNodes, ClampedClusterCount(g.clusterCount), DefaultMaxIterations)
    ELSE IF g.algorithm = "agglomerative"
    THEN runAgglomerative(g.baseNodes, ClampedClusterCount(g.clusterCount))
    ELSE runDbscan(g.baseNodes, g.dbscanEps, g.dbscanMinPts)

GraphIsCurrent ==
    call = "graph" =>
        /\ graph.clustering = ResultInUse(graph)
        /\ graph.enrichedNodes =
              EnrichedNodes(graph.baseNodes, graph.projected, ResultInUse(graph).labels)
        /\ graph.clusterInsights = ClusterInsights(graph.enrichedNodes)

ProjectionKept ==
    call = "graph" =>
        /\ graph'.projected = graph.projected
        /\ graph'.baseNodes = graph.baseNodes

C17_GraphRecomputes == []GraphIsCurrent /\ [][ProjectionKept]_vars

C17_Witness ==
    /\ call = "graph"
    /\ graph.algorithm = "dbscan"
    /\ graph.clusterCount # DefaultClusterCount
    /\ graph.dbscanEps = [n |-> 10, d |-> 1]
    /\ graph.dbscanMinPts = 2
    /\ \E idx \in 1..Len(graph.enrichedNodes) : graph.enrichedNodes[idx].clusterId = 0
    /\ \E idx \in 1..Len(graph.enrichedNodes) : graph.enrichedNodes[idx].x # 0
    /\ Len(graph.clusterInsights) >= 1

(***************************************************************************)
(* C18: no engine call changes its input.  While a call runs and when it   *)
(* has returned, the batch is the one it was given, the matrix is the one  *)
(* extracted from it, and no store of K-Means into a centroid has written  *)
(* into a matrix row: the centroids are copies of the seed rows.           *)
(***************************************************************************)
MatrixAsExtracted ==
    (/\ call \in {"kmeans", "agglomerative", "dbscan"}
     /\ pc # "start"
     /\ Len(data) # 0) => vectors = extractValidEmbeddings(data).vectors

InputKept == (call' = call /\ pc' # "start") => data' = data

C18_InputsUnmodified ==
    /\ [](overwritten = {} /\ MatrixAsExtracted)
    /\ [][InputKept]_vars

\* K-Means has returned a centroid that was recomputed away from every row.
C18_Witness ==
    /\ call = "kmeans"
    /\ pc = "done"
    /\ result.status = "returned"
    /\ result.iterations >= 1
    /\ \E c \in 1..Len(result.centroids) :
          /\ Len(Members(labels, c - 1)) >= 2
          /\ \A r \in 1..Len(vectors) : result.centroids[c] # RowAsCentroid(vectors[r])
    /\ overwritten = {}

(***************************************************************************)
(* C19: for 1 <= k <= n, when the initialisation loop of K-Means has       *)
(* ended it has selected exactly k pairwise-distinct row indices, each in  *)
(* 0..n-1, and the initial centroids are copies of those k rows: the limit *)
(* of 4n draws never leaves fewer than k centroids.                        *)
(***************************************************************************)
C19_SeedsKDistinctRows ==
    (/\ call = "kmeans"
     /\ pc = "seed"
     /\ ~SeedLoopRuns
     /\ 1 <= k
     /\ k <= Len(vectors)) =>
        /\ Len(centroids) = k
        /\ Cardinality(usedIndices) = k
        /\ usedIndices \subseteq 0..(Len(vectors) - 1)
        /\ { centroids[c] : c \in 1..Len(centroids) }
              = { RowAsCentroid(vectors[index + 1]) : index \in usedIndices }

(***************************************************************************)
(* C20: in the result K-Means returns, every centroid with at least one    *)
(* row assigned to it is the arithmetic mean of the rows carrying its      *)
(* label and the inertia is measured against those means, for every k and  *)
(* whether the loop ended by early stop or by the iteration cap.           *)
(***************************************************************************)
C20_CentroidsAreMeans ==
    (/\ call = "kmeans"
     /\ pc = "done"
     /\ result.status = "returned"
     /\ Len(result.centroids) >= 1) =>
        /\ \A c \in 1..Len(result.centroids) :
              Len(Members(labels, c - 1)) # 0 =>
                  result.centroids[c] = MeanOf(vectors, Members(labels, c - 1), dimension)
        /\ result.inertia =
              ToFixed3(Inertia(vectors, labels,
                               RecomputeCentroids(vectors, labels, result.centroids, dimension)))

(***************************************************************************)
(* C21: K-Means terminates after at most maxIterations assignment passes   *)
(* and the iterations it reports never exceed that cap; it stops before    *)
(* the cap exactly when a pass changes no label, and every row then        *)
(* carries the lowest-index centroid among those nearest to it.            *)
(***************************************************************************)
\* c is the lowest index among the centroids at the least distance of row.
IsLowestNearest(row, cents, c) ==
    /\ c \in 0..(Len(cents) - 1)
    /\ \A o \in 1..Len(cents) :
          ~RatLess(euclideanDistanceSq(row, cents[o]), euclideanDistanceSq(row, cents[c + 1]))
    /\ \A o \in 1..c :
          RatLess(euclideanDistanceSq(row, cents[c + 1]), euclideanDistanceSq(row, cents[o]))

KMeansWithinCap ==
    call = "kmeans" =>
        /\ pc \in {"iterate", "finish"} => iterations <= maxIterations
        /\ pc = "finish" => iterations < maxIterations
        /\ (pc = "done" /\ result.status = "returned") => result.iterations <= maxIterations

EarlyStopIsArgmin ==
    (/\ call = "kmeans"
     /\ pc = "done"
     /\ result.status = "returned"
     /\ Len(result.centroids) >= 1
     /\ result.iterations < maxIterations) =>
        \A r \in 1..Len(vectors) : IsLowestNearest(vectors[r], result.centroids, labels[r])

\* A pass either changes a label and is counted, or changes none and ends
\* the loop below the cap.
PassCounted ==
    (call = "kmeans" /\ pc = "iterate" /\ pc' # "done") =>
        \/ /\ pc' = "iterate"
           /\ labels' # labels
           /\ iterations' = iterations + 1
        \/ /\ pc' = "finish"
           /\ labels' = labels
           /\ iterations' = iterations

C21_KMeansTerminates ==
    /\ [](KMeansWithinCap /\ EarlyStopIsArgmin)
    /\ [][PassCounted]_vars
    /\ (call = "kmeans" /\ pc = "start") ~> (pc = "done")

\* An early stop after a counted pass: two centroids, rows under both
\* labels, and fewer passes counted than the cap allows.
C21_Witness ==
    /\ call = "kmeans"
    /\ pc = "done"
    /\ result.status = "returned"
    /\ result.iterations >= 1
    /\ result.iterations < maxIterations
    /\ Len(result.centroids) >= 2
    /\ \E r, q \in 1..Len(vectors) : labels[r] # labels[q]

(***************************************************************************)
(* C22: every merge of runAgglomerative joins two current clusters whose   *)
(* average pairwise distance, computed afresh from their members, is the   *)
(* least among all pairs of current clusters, and the first such pair in   *)
(* scan order; every distance held in the cache, and every distance        *)
(* clusterDistance gives for two current clusters, equals the distance     *)
(* computed afresh.                                                        *)
(***************************************************************************)
CachedDistancesAreCurrent ==
    call = "agglomerative" =>
        /\ \A key \in DOMAIN distanceCache :
              distanceCache[key] = AverageLinkage(vectors, key[1], key[2])
        /\ pc = "merge" =>
              \A a, b \in 1..Len(clusters) :
                 a < b => clusterDistance(distanceCache, vectors, clusters[a], clusters[b])
                            = AverageLinkage(vectors, clusters[a], clusters[b])

MergedPairIsNearest ==
    (call = "agglomerative" /\ pc = "merge" /\ clusters' # clusters) =>
        LET pairs == ScanPairs(Len(clusters))
            Fresh(q) == AverageLinkage(vectors, clusters[pairs[q][1] + 1],
                                       clusters[pairs[q][2] + 1])
        IN \E m \in 1..Len(pairs) :
              /\ clusters' = MergeClusters(clusters, pairs[m][1], pairs[m][2])
              /\ \A q \in 1..Len(pairs) : ~RatLess(Fresh(q), Fresh(m))
              /\ \A q \in 1..(m - 1) : RatLess(Fresh(m), Fresh(q))

C22_MergesNearestPair ==
    /\ []CachedDistancesAreCurrent
    /\ [][MergedPairIsNearest]_vars

\* Two merges have been made: the second joined two single rows whose
\* distance the first scan had put into the cache, in a scan that also
\* measured the cluster the first merge had made.
C22_Witness ==
    /\ call = "agglomerative"
    /\ pc = "merge"
    /\ \E c \in 1..Len(clusters) :
          /\ Len(clusters[c]) = 2
          /\ CacheKey(<<clusters[c][1]>>, <<clusters[c][2]>>) \in DOMAIN distanceCache
          /\ \E key \in DOMAIN distanceCache :
                (Len(key[1]) >= 2 \/ Len(key[2]) >= 2) /\ key[1] # clusters[c]

(***************************************************************************)
(* C23: while runDbscan expands a cluster, a row taken from the seed stack *)
(* whose label is -1 gets the id of the cluster being expanded; a label    *)
(* that is not negative is never changed for the rest of the run; so on    *)
(* return a labelled row that is no core row carries the least cluster id  *)
(* among the core rows within eps of it, the cluster found first.          *)
(***************************************************************************)
\* Row r (1-based) of the matrix is a core row.
CoreRow(r) == IsCore(regionQuery(vectors, r - 1, eps), minPts)

\* The labels of the core rows within eps of row r.
CoreLabelsNear(r) ==
    { labels[q] : q \in { q \in 1..Len(vectors) :
                            CoreRow(q) /\ Includes(regionQuery(vectors, r - 1, eps), q - 1) } }

ReachedRowLabelled ==
    (/\ call = "dbscan"
     /\ pc = "expand"
     /\ Len(seeds) > 0
     /\ labels[seeds[Len(seeds)] + 1] = -1) =>
        labels'[seeds[Len(seeds)] + 1] = clusterId

LabelKept ==
    (call = "dbscan" /\ pc \in {"scan", "expand"}) =>
        \A r \in 1..Len(labels) : labels[r] >= 0 => labels'[r] = labels[r]

BorderKeepsFirst ==
    (call = "dbscan" /\ pc = "done" /\ Len(vectors) > 0 /\ Len(labels) = Len(vectors)) =>
        \A r \in 1..Len(vectors) :
           (labels[r] >= 0 /\ ~CoreRow(r)) =>
              /\ labels[r] \in CoreLabelsNear(r)
              /\ \A c \in CoreLabelsNear(r) : labels[r] <= c

C23_LabelsSettleOnce ==
    /\ [][ReachedRowLabelled /\ LabelKept]_vars
    /\ []BorderKeepsFirst

\* A returned run with a row that is no core row, within eps of core rows
\* of two clusters.
C23_Witness ==
    /\ call = "dbscan"
    /\ pc = "done"
    /\ Len(vectors) > 0
    /\ Len(labels) = Len(vectors)
    /\ \E r \in 1..Len(vectors) :
          /\ labels[r] >= 0
          /\ ~CoreRow(r)
          /\ \E c \in CoreLabelsNear(r) : c > labels[r]

(***************************************************************************)
(* C24: every row of the matrix extractValidEmbeddings returns has the     *)
(* length d of the first embedding that is a non-empty array; a longer     *)
(* embedding gives its first d entries, a shorter one is filled with 0 up  *)
(* to d; every entry of every row is a finite number, an entry that is no  *)
(* finite number being replaced by 0 in a row that is kept.                *)
(***************************************************************************)
\* The records (1-based) whose embedding is a non-empty array.
ValidRecords == { r \in 1..Len(data) : data[r].kind = "array" /\ Len(data[r].emb) > 0 }

FirstValidLength ==
    Len(data[CHOOSE r \in ValidRecords : \A o \in ValidRecords : r <= o].emb)

C24_RowsFitDimension ==
    (call = "extract" /\ Done /\ ValidRecords # {}) =>
        /\ result.dimension = FirstValidLength
        /\ \A r \in ValidRecords : \E v \in 1..Len(result.vectors) : result.indices[v] = r - 1
        /\ \A v \in 1..Len(result.vectors) :
              LET emb == data[result.indices[v] + 1].emb
                  row == result.vectors[v]
              IN /\ Len(row) = FirstValidLength
                 /\ \A j \in 1..Len(row) :
                       /\ IsFiniteEntry(row[j])
                       /\ row[j] = IF j <= Len(emb) /\ IsFiniteEntry(emb[j]) THEN emb[j] ELSE 0

\* A matrix with a row whose embedding had another length than d and a row
\* whose embedding had an entry that is no finite number.
C24_Witness ==
    /\ call = "extract"
    /\ Done
    /\ ValidRecords # {}
    /\ \E v \in 1..Len(result.vectors) :
          Len(data[result.indices[v] + 1].emb) # FirstValidLength
    /\ \E v \in 1..Len(result.vectors) :
          \E j \in 1..Min(FirstValidLength, Len(data[result.indices[v] + 1].emb)) :
             ~IsFiniteEntry(data[result.indices[v] + 1].emb[j])

(***************************************************************************)
(* C25: the insight aggregation returns one insight per distinct label     *)
(* among the enriched records, -1 included; the size of an insight is the  *)
(* number of records with its label, so the sizes add up to the number of  *)
(* records; the list is ordered by size, larger first, and insights of     *)
(* equal size stand in the order in which their labels first occur.        *)
(***************************************************************************)
\* The first record (1-based) with label id.
FirstWithLabel(lbls, id) ==
    CHOOSE r \in 1..Len(lbls) : lbls[r] = id /\ \A o \in 1..(r - 1) : lbls[o] # id

C25_InsightsPerLabel ==
    (call = "insights" /\ pc = "done") =>
        LET ins == result.insights
        IN /\ \A a, b \in 1..Len(ins) : a # b => ins[a].id # ins[b].id
           /\ { ins[a].id : a \in 1..Len(ins) } = { labels[r] : r \in 1..Len(labels) }
           /\ \A a \in 1..Len(ins) :
                 ins[a].size = Cardinality({ r \in 1..Len(labels) : labels[r] = ins[a].id })
           /\ IntSum([a \in 1..Len(ins) |-> ins[a].size]) = Len(labels)
           /\ \A a, b \in 1..Len(ins) :
                 a < b =>
                    /\ ins[a].size >= ins[b].size
                    /\ ins[a].size = ins[b].size =>
                          FirstWithLabel(labels, ins[a].id) < FirstWithLabel(labels, ins[b].id)

\* Noise and two clusters, met in the order 1, -1, 0; the two that come
\* first have one record each and the last has two.
C25_Witness ==
    /\ call = "insights"
    /\ pc = "done"
    /\ labels = <<1, -1, 0, 0>>
    /\ Len(result.insights) = 3
    /\ result.insights[1].id = 0
    /\ result.insights[2].id = 1
    /\ result.insights[3].id = -1

(***************************************************************************)
(* C26: projectTo2D lets no NaN reach its output and leaves no working     *)
(* vector of norm 0 in power iteration: on a matrix whose covariance is    *)
(* zero (a single row, identical rows) and on a matrix of dimension 1,     *)
(* both basis vectors returned have finite entries and neither is the zero *)
(* vector, a unit vector having taken its place; the projected             *)
(* coordinates are finite.                                                 *)
(***************************************************************************)
CovarianceIsZero(d) ==
    \A a, b \in 1..ProjectionDimension(d) : covariance(d)[a][b] = 0

C26_ZeroNormGuarded ==
    (/\ call = "project"
     /\ Done
     /\ IsMatrix(data)
     /\ CovarianceIsZero(data) \/ ProjectionDimension(data) = 1) =>
        /\ result.status = "returned"
        /\ \A c \in 1..Len(result.components) :
              /\ \A j \in 1..Len(result.components[c]) :
                    IsFiniteEntry(result.components[c][j])
              /\ ~IsZeroVector(result.components[c])
        /\ \A r \in 1..Len(result.projected) :
              IsFiniteEntry(result.projected[r].x) /\ IsFiniteEntry(result.projected[r].y)

(***************************************************************************)
(* C27: when runDbscan returns, for eps >= 0 and minPts >= 1: no core row  *)
(* (a row with at least minPts rows within eps, itself included) has the   *)
(* label -1; two core rows within eps of each other have the same label;   *)
(* a row with the label -1 is no core row and has no core row within eps.  *)
(***************************************************************************)
C27_DbscanLabelsSound ==
    (/\ call = "dbscan"
     /\ Done
     /\ Len(vectors) > 0
     /\ Len(labels) = Len(vectors)
     /\ eps.n >= 0
     /\ minPts >= 1) =>
        /\ \A v \in CoreRows : labels[v] # -1
        /\ \A v, w \in CoreRows : w \in Neighbourhood(v) => labels[v] = labels[w]
        /\ \A v \in 1..Len(vectors) :
              labels[v] = -1 =>
                 /\ v \notin CoreRows
                 /\ \A w \in Neighbourhood(v) : w \notin CoreRows

\* A returned run with two core rows within eps of each other and a row
\* left as noise.
C27_Witness ==
    /\ call = "dbscan"
    /\ Done
    /\ Len(vectors) > 0
    /\ Len(labels) = Len(vectors)
    /\ eps.n >= 0
    /\ minPts >= 1
    /\ \E v, w \in CoreRows : v # w /\ w \in Neighbourhood(v) /\ labels[v] >= 0
    /\ \E v \in 1..Len(vectors) : labels[v] = -1

(***************************************************************************)
(* C28: every value the generator of createSeededRandom returns is in      *)
(* [0, 1), so the index Math.floor(rand() * n) the seeding loop of         *)
(* runKMeans draws is always one of 0..n-1.                                *)
(***************************************************************************)
C28_RandInUnitInterval ==
    (call = "kmeans" /\ pc = "seed" /\ safetyCounter >= 1) =>
        /\ RandNonNegative(s)
        /\ RandIndex(s, Len(vectors)) \in 0..(Len(vectors) - 1)

(***************************************************************************)
(* C29: the clusters of runAgglomerative are at all times a partition of   *)
(* the row indices 0..n-1: no cluster is empty and every row index is a    *)
(* member of exactly one cluster, once; a merge makes the list one cluster *)
(* shorter, two clusters giving way to their union, and leaves every other *)
(* cluster as it was.                                                      *)
(***************************************************************************)
\* How often the row index idx occurs among the members of the clusters.
Occurrences(cls, idx) ==
    IntSum([c \in 1..Len(cls) |->
               Cardinality({ m \in 1..Len(cls[c]) : cls[c][m] = idx })])

ClustersPartitionRows ==
    (call = "agglomerative" /\ pc \in {"merge", "done"} /\ clusters # <<>>) =>
        /\ \A c \in 1..Len(clusters) : Len(clusters[c]) >= 1
        /\ \A c \in 1..Len(clusters) : \A m \in 1..Len(clusters[c]) :
              clusters[c][m] \in 0..(Len(vectors) - 1)
        /\ \A idx \in 0..(Len(vectors) - 1) : Occurrences(clusters, idx) = 1

MergeJoinsTwo ==
    (call = "agglomerative" /\ pc = "merge" /\ clusters' # clusters) =>
        /\ Len(clusters') = Len(clusters) - 1
        /\ \E a, b \in 1..Len(clusters) :
              /\ a < b
              /\ clusters'[a] = clusters[a] \o clusters[b]
              /\ \A c \in 1..Len(clusters') :
                    c # a => clusters'[c] = IF c < b THEN clusters[c] ELSE clusters[c + 1]

C29_ClustersPartition ==
    /\ []ClustersPartitionRows
    /\ [][MergeJoinsTwo]_vars

\* Two merges have been made and a cluster the second merge left alone
\* stands beside the one it made.
C29_Witness ==
    /\ call = "agglomerative"
    /\ pc = "merge"
    /\ Len(vectors) >= 3
    /\ Len(clusters) = Len(vectors) - 2
    /\ Len(clusters) >= 2

(***************************************************************************)
(* C30: runDbscan always returns.  No row is marked visited twice and a    *)
(* row's neighbourhood is expanded only by the step that marks it; every   *)
(* expansion ends with the seed stack empty; the outer loop goes through   *)
(* the row indices once, in order, and at the return every row has been    *)
(* visited.                                                                *)
(***************************************************************************)
VisitedGrows ==
    (call = "dbscan" /\ pc \in {"scan", "expand"}) =>
        /\ \A r \in 1..Len(visited) : visited[r] => visited'[r]
        /\ Cardinality({ r \in 1..Len(visited) : visited'[r] /\ ~visited[r] }) <= 1

\* Seeds are pushed only by a step that marks the row at hand, which was
\* not marked before; a row already marked is taken from the stack and
\* nothing else happens to the stack.
QueriedOnce ==
    /\ (call = "dbscan" /\ pc = "scan" /\ pc' = "expand") =>
          ~visited[i + 1] /\ visited'[i + 1]
    /\ (call = "dbscan" /\ pc = "expand" /\ Len(seeds) > 0) =>
          /\ Len(seeds') >= Len(seeds) =>
                ~visited[seeds[Len(seeds)] + 1] /\ visited'[seeds[Len(seeds)] + 1]
          /\ visited[seeds[Len(seeds)] + 1] =>
                seeds' = SubSeq(seeds, 1, Len(seeds) - 1) /\ visited' = visited

ScanAdvances ==
    call = "dbscan" =>
        /\ (pc = "scan" /\ pc' = "scan") => i' = i + 1
        /\ (pc = "scan" /\ pc' = "expand") => i' = i /\ i < Len(vectors)
        /\ (pc = "expand" /\ pc' = "expand") => i' = i
        /\ (pc = "expand" /\ pc' = "scan") => i' = i + 1 /\ Len(seeds) = 0

ScanComplete ==
    (call = "dbscan" /\ pc = "done" /\ Len(vectors) > 0 /\ Len(visited) = Len(vectors)) =>
        /\ i = Len(vectors)
        /\ \A r \in 1..Len(visited) : visited[r]

C30_DbscanTerminates ==
    /\ [][VisitedGrows /\ QueriedOnce /\ ScanAdvances]_vars
    /\ []ScanComplete
    /\ (call = "dbscan" /\ pc = "start") ~> (pc = "done")
    /\ (call = "dbscan" /\ pc = "expand") ~> (pc = "scan")

\* A returned run over at least three rows that expanded two clusters.
C30_Witness ==
    /\ call = "dbscan"
    /\ pc = "done"
    /\ Len(vectors) >= 3
    /\ Len(visited) = Len(vectors)
    /\ clusterId >= 2
    /\ i = Len(vectors)

====
